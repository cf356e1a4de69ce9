--------------------------- MODULE SessionProofs ---------------------------
(***************************************************************************)
(* What the watchdogs and the automatic reconnection of the session keep,  *)
(* for accounts of any size, any retry limits and any number of messages   *)
(* under way, with an impatient player and a socket that reports late.     *)
(* And what client and server agree on, when the player waits for answers, *)
(* the socket reports a Close in time and the server refuses a login only  *)
(* because it is busy (Calm).                                              *)
(***************************************************************************)
EXTENDS Session, SequenceTheorems, TLAPS

Safe == WatchdogArmed /\ NoWatchdogWhenClosed /\ RetryWithinLimit

IInv == TypeOK /\ Safe

LEMMA Emptied == <<>> \in Seq(Requests) /\ <<>> \in Seq(Replies)
  OBVIOUS

(* Whether a request is sent or dropped, c2s stays a queue of requests.    *)
LEMMA SendType ==
  ASSUME c2s \in Seq(Requests), NEW m \in Requests, Send(m)
  PROVE  c2s' \in Seq(Requests)
<1>1. Append(c2s, m) \in Seq(Requests)
  OBVIOUS
<1> QED
  BY <1>1 DEF Send

(* What show and ShowSingleAlertDlg may add to the dialogs.                *)
LEMMA ShowOnly ==
  ASSUME NEW d, NEW sh, Show(d, sh)
  PROVE  shown' \subseteq sh \cup {d}
  BY DEF Show

LEMMA AlertOnly ==
  ASSUME NEW a, NEW sh, ShowSingleAlertDlg(a, sh)
  PROVE  shown' \subseteq sh \cup {a}
  BY ShowOnly DEF ShowSingleAlertDlg

(* What show and ShowSingleAlertDlg leave shown and being loaded.          *)
LEMMA ShowType ==
  ASSUME TypeOK, NEW d \in Dialogs, NEW sh \in SUBSET Dialogs, Show(d, sh)
  PROVE  /\ shown' \subseteq Dialogs /\ opening' \subseteq Dialogs
         /\ shown' \subseteq sh \cup {d}
  BY DEF Show, TypeOK

LEMMA AlertType ==
  ASSUME TypeOK, NEW a \in Alerts, NEW sh \in SUBSET Dialogs, ShowSingleAlertDlg(a, sh)
  PROVE  /\ shown' \subseteq Dialogs /\ opening' \subseteq Dialogs
         /\ shown' \subseteq sh \cup {a}
<1>1. a \in Dialogs
  BY DEF Dialogs
<1>2. CASE Show(a, sh)
  BY <1>1, <1>2, ShowType
<1>3. CASE shown' = sh /\ UNCHANGED opening
  BY <1>3 DEF TypeOK
<1> QED
  BY <1>2, <1>3 DEF ShowSingleAlertDlg

(* What role_logout does to the types of what it changes.                  *)
LEMMA RoleLogoutType ==
  ASSUME TypeOK, NEW t \in LogoutType, role_logout(t)
  PROVE  /\ link' \in {"closed", "connecting", "open", "halfopen", "closing"}
         /\ AutoReconnect' = FALSE
         /\ roles' \in Seq(RoleIds)
         /\ selectedroleid' \in Nat
         /\ loginroleid' \in RoleIds \cup {0}
         /\ shown' \subseteq Dialogs /\ opening' \subseteq Dialogs
         /\ scene' \in {"login", "map"}
         /\ loading' \in LogoutType \cup {"none"}
         /\ c2s' \in Seq(Requests)
         /\ s2c' \in Seq(Replies)
<1> USE DEF role_logout, close, Close, TypeOK
<1>1. /\ link' \in {"closed", "connecting", "open", "halfopen", "closing"}
      /\ AutoReconnect' = FALSE /\ c2s' = <<>> /\ s2c' = <<>>
      /\ scene' \in {"login", "map"} /\ selectedroleid' \in Nat
  OBVIOUS
<1>2. CASE scene = "login"
  <2>1. Show("dlglogin", {}) /\ "dlglogin" \in Dialogs
    BY <1>2 DEF Dialogs
  <2>2. shown' \subseteq Dialogs /\ opening' \subseteq Dialogs
    BY <2>1, ShowType
  <2> QED
    BY <1>1, <1>2, <2>2
<1>3. CASE scene # "login"
  <2>1. roles' = <<>> /\ loginroleid' = 0 /\ shown' = {} /\ opening' = opening /\ loading' = t
    BY <1>3
  <2> QED
    BY <1>1, <2>1
<1> QED
  BY <1>2, <1>3

LEMMA SocketConnectedIInv == IInv /\ SocketConnected => IInv'
<1> SUFFICES ASSUME IInv, SocketConnected PROVE IInv'
  OBVIOUS
<1> USE SessionAssumption DEF SocketConnected, netVars, authVars, roleVars, dialogVars, sceneVars, serverVars
<1>1. TypeOK'
  <2>1. s2c' = <<[type |-> "OnlineAnnounce"]>> /\ c2s' = <<>>
    OBVIOUS
  <2>2. [type |-> "OnlineAnnounce"] \in Replies
    BY DEF Replies
  <2>3. s2c' \in Seq(Replies) /\ c2s' \in Seq(Requests)
    BY <2>1, <2>2
  <2>4. recvSPingExpireTime' \in {"nil", "armed", "due"}
    BY DEF IInv, TypeOK, on_connected, ArmPing
  <2> QED
    BY <2>3, <2>4 DEF IInv, TypeOK
<1>2. Safe'
  <2>1. WatchdogArmed'
    BY DEF IInv, TypeOK, WatchdogArmed, on_connected, ArmPing, RoleIds
  <2>2. NoWatchdogWhenClosed' /\ RetryWithinLimit'
    BY DEF NoWatchdogWhenClosed, RetryWithinLimit
  <2> QED
    BY <2>1, <2>2 DEF Safe
<1> QED
  BY <1>1, <1>2 DEF IInv

(* A failed attempt raises the count or leaves it at its limit.            *)
LEMMA NextCountType ==
  ASSUME TypeOK
  PROVE  /\ NextCount \in 0..CountLimit
         /\ NextCount >= reconnectCount
         /\ ~GiveUp(NextCount) => NextCount <= QuietReconnects + MaxReconnectCount
         /\ NextCount <= QuietReconnects => reconnectCount <= QuietReconnects
  BY SessionAssumption DEF TypeOK, NextCount, CountLimit, GiveUp

(* What a failed attempt does to the dialogs.                              *)
LEMMA AbortDialogs ==
  ASSUME TypeOK, on_abort, AutoReconnect
  PROVE  /\ shown' \subseteq Dialogs /\ opening' \subseteq Dialogs
         /\ GiveUp(NextCount) => "disconnection" \notin shown'
         /\ ~GiveUp(NextCount) /\ NextCount <= QuietReconnects => shown' = shown
<1>1. shown \in SUBSET Dialogs /\ shown \ {"disconnection"} \in SUBSET Dialogs
  BY DEF TypeOK
<1>2. CASE GiveUp(NextCount)
  <2>1. ShowSingleAlertDlg("maxreconnect", shown \ {"disconnection"})
    BY <1>2 DEF on_abort
  <2>2. "maxreconnect" \in Alerts
    BY DEF Alerts
  <2> QED
    BY <1>1, <1>2, <2>1, <2>2, AlertType
<1>3. CASE ~GiveUp(NextCount) /\ NextCount > QuietReconnects
  <2>1. Show("disconnection", shown) /\ "disconnection" \in Dialogs
    BY <1>3 DEF on_abort, Dialogs
  <2>2. shown' \subseteq Dialogs /\ opening' \subseteq Dialogs
    BY <1>1, <2>1, ShowType
  <2> QED
    BY <1>3, <2>2, NextCountType, SessionAssumption DEF CountLimit
<1>4. CASE ~GiveUp(NextCount) /\ ~(NextCount > QuietReconnects)
  BY <1>4 DEF on_abort, dialogVars, TypeOK
<1> QED
  BY <1>2, <1>3, <1>4

LEMMA SocketAbortedIInv == IInv /\ SocketAborted => IInv'
<1> SUFFICES ASSUME IInv, SocketAborted PROVE IInv'
  OBVIOUS
<1> USE SessionAssumption DEF SocketAborted, on_abort, NetworkAbort, netVars, authVars, roleVars, dialogVars, sceneVars, serverVars
<1>0. TypeOK /\ Safe
  BY DEF IInv
<1>1. /\ link' = "closed" /\ c2s' = <<>> /\ s2c' = <<>>
      /\ isOnline' = FALSE /\ recvSPingExpireTime' = "nil"
  OBVIOUS
<1>2. CASE ~AutoReconnect
  <2>1. TypeOK'
    <3>1. UNCHANGED <<reconnectCount, AutoReconnect, shown, opening>>
      BY <1>2
    <3> QED
      BY <1>0, <1>1, <3>1, Emptied DEF TypeOK, CountLimit
  <2>2. Safe'
    BY <1>0, <1>1, <1>2
    DEF Safe, WatchdogArmed, NoWatchdogWhenClosed, RetryWithinLimit, Up
  <2> QED
    BY <2>1, <2>2 DEF IInv
<1>3. CASE AutoReconnect
  <2>1. reconnectCount' = NextCount /\ AutoReconnect' = ~GiveUp(NextCount)
    BY <1>3
  <2>2. shown' \subseteq Dialogs /\ opening' \subseteq Dialogs
    BY <1>0, <1>3, AbortDialogs
  <2>3. AutoReconnect' \in BOOLEAN
    BY <2>1 DEF GiveUp
  <2>4. reconnectCount' \in 0..CountLimit
    BY <1>0, <2>1, NextCountType
  <2>5. TypeOK'
    <3>1. reconnectCount' \in (0..CountLimit)'
      BY <2>4 DEF CountLimit
    <3> QED
      BY <1>0, <1>1, <2>2, <2>3, <3>1, Emptied DEF TypeOK
  <2>6. RetryWithinLimit'
    BY <1>0, <2>1, NextCountType DEF RetryWithinLimit
  <2>7. WatchdogArmed' /\ NoWatchdogWhenClosed'
    BY <1>1 DEF WatchdogArmed, NoWatchdogWhenClosed, Up
  <2> QED
    BY <2>5, <2>6, <2>7 DEF IInv, Safe
<1> QED
  BY <1>2, <1>3

LEMMA SocketRetriesIInv == IInv /\ SocketRetries => IInv'
<1> SUFFICES ASSUME IInv, SocketRetries PROVE IInv'
  OBVIOUS
<1> USE SessionAssumption DEF SocketRetries, netVars, authVars, roleVars, dialogVars, sceneVars, serverVars
<1>1. TypeOK'
  BY DEF IInv, TypeOK, Requests, RoleIds
<1>2. Safe'
  BY DEF IInv, TypeOK, Safe, WatchdogArmed, NoWatchdogWhenClosed, RetryWithinLimit, Up
<1> QED
  BY <1>1, <1>2 DEF IInv

LEMMA SocketGoesSilentIInv == IInv /\ SocketGoesSilent => IInv'
<1> SUFFICES ASSUME IInv, SocketGoesSilent PROVE IInv'
  OBVIOUS
<1> USE SessionAssumption DEF SocketGoesSilent, netVars, authVars, roleVars, dialogVars, sceneVars, serverVars
<1>1. TypeOK'
  BY DEF IInv, TypeOK, Requests, RoleIds
<1>2. Safe'
  BY DEF IInv, TypeOK, Safe, WatchdogArmed, NoWatchdogWhenClosed, RetryWithinLimit, Up
<1> QED
  BY <1>1, <1>2 DEF IInv

LEMMA ServerForgetsIInv == IInv /\ ServerForgets => IInv'
<1> SUFFICES ASSUME IInv, ServerForgets PROVE IInv'
  OBVIOUS
<1> USE SessionAssumption DEF ServerForgets, netVars, authVars, roleVars, dialogVars, sceneVars, serverVars
<1>1. TypeOK'
  BY DEF IInv, TypeOK, Requests, RoleIds
<1>2. Safe'
  BY DEF IInv, TypeOK, Safe, WatchdogArmed, NoWatchdogWhenClosed, RetryWithinLimit, Up
<1> QED
  BY <1>1, <1>2 DEF IInv

LEMMA onmsg_OnlineAnnounceIInv == IInv /\ onmsg_OnlineAnnounce => IInv'
<1> SUFFICES ASSUME IInv, onmsg_OnlineAnnounce PROVE IInv'
  OBVIOUS
<1> USE SessionAssumption DEF onmsg_OnlineAnnounce, Receive, netVars, authVars, roleVars, dialogVars, sceneVars, serverVars
<1>1. TypeOK'
  <2> DEFINE m == IF loginroleid = 0
                  THEN [type |-> "CGetRoleList"]
                  ELSE [type |-> "CRoleRelogin", roleid |-> loginroleid]
  <2>1. m \in Requests
    BY DEF IInv, TypeOK, Requests
  <2>2. Send(m) /\ c2s \in Seq(Requests)
    BY DEF IInv, TypeOK
  <2> HIDE DEF m
  <2>3. c2s' \in Seq(Requests)
    BY <2>1, <2>2, SendType
  <2> QED
    BY <2>3 DEF IInv, TypeOK
<1>2. Safe'
  BY DEF IInv, TypeOK, Safe, WatchdogArmed, NoWatchdogWhenClosed, RetryWithinLimit, Up
<1> QED
  BY <1>1, <1>2 DEF IInv

LEMMA onmsg_SPingIInv == IInv /\ onmsg_SPing => IInv'
<1> SUFFICES ASSUME IInv, onmsg_SPing PROVE IInv'
  OBVIOUS
<1> USE SessionAssumption DEF onmsg_SPing, netVars, authVars, roleVars, dialogVars, sceneVars, serverVars
<1>1. TypeOK'
  BY DEF IInv, TypeOK, Requests, RoleIds
<1>2. Safe'
  BY DEF IInv, TypeOK, Safe, WatchdogArmed, NoWatchdogWhenClosed, RetryWithinLimit, Up
<1> QED
  BY <1>1, <1>2 DEF IInv

LEMMA onmsg_KeepAliveIInv == IInv /\ onmsg_KeepAlive => IInv'
<1> SUFFICES ASSUME IInv, onmsg_KeepAlive PROVE IInv'
  OBVIOUS
<1> USE SessionAssumption DEF onmsg_KeepAlive, netVars, authVars, roleVars, dialogVars, sceneVars, serverVars
<1>1. TypeOK'
  BY DEF IInv, TypeOK, Requests, RoleIds
<1>2. Safe'
  BY DEF IInv, TypeOK, Safe, WatchdogArmed, NoWatchdogWhenClosed, RetryWithinLimit, Up
<1> QED
  BY <1>1, <1>2 DEF IInv

LEMMA onmsg_ErrorInfoIInv == IInv /\ onmsg_ErrorInfo => IInv'
<1> SUFFICES ASSUME IInv, onmsg_ErrorInfo PROVE IInv'
  OBVIOUS
<1> USE SessionAssumption DEF onmsg_ErrorInfo, close, Close, netVars, authVars, roleVars, dialogVars, sceneVars, serverVars
<1>1. TypeOK'
  <2>1. c2s' = <<>> /\ s2c' = <<>>
    OBVIOUS
  <2>2. shown' \subseteq Dialogs /\ opening' \subseteq Dialogs
    <3>1. CASE ShowSingleAlertDlg("kickedbyanother", shown)
      <4>1. shown \in SUBSET Dialogs /\ "kickedbyanother" \in Alerts
        BY DEF IInv, TypeOK, Alerts
      <4> QED
        BY <3>1, <4>1, AlertType DEF IInv
    <3>2. CASE UNCHANGED dialogVars
      BY <3>2 DEF IInv, TypeOK
    <3> QED
      BY <3>1, <3>2
  <2>3. isOnline' \in BOOLEAN /\ AutoReconnect' \in BOOLEAN
        /\ link' \in {"closed", "connecting", "open", "halfopen", "closing"}
    BY DEF IInv, TypeOK
  <2> QED
    BY <2>1, <2>2, <2>3 DEF IInv, TypeOK
<1>2. Safe'
  BY DEF IInv, TypeOK, Safe, WatchdogArmed, NoWatchdogWhenClosed, RetryWithinLimit, Up
<1> QED
  BY <1>1, <1>2 DEF IInv

LEMMA onmsg_SKickRoleIInv == IInv /\ onmsg_SKickRole => IInv'
<1> SUFFICES ASSUME IInv, onmsg_SKickRole PROVE IInv'
  OBVIOUS
<1> USE SessionAssumption DEF onmsg_SKickRole, netVars, authVars, roleVars, dialogVars, sceneVars, serverVars
<1>1. TypeOK'
  <2>1. role_logout("to_login") /\ "to_login" \in LogoutType
    BY DEF LogoutType
  <2> QED
    BY <2>1, RoleLogoutType DEF IInv, TypeOK
<1>2. Safe'
  BY DEF role_logout, close, Close, IInv, TypeOK, Safe, WatchdogArmed, NoWatchdogWhenClosed, RetryWithinLimit, Up
<1> QED
  BY <1>1, <1>2 DEF IInv

LEMMA onmsg_SEnterIInv == IInv /\ onmsg_SEnter => IInv'
<1> SUFFICES ASSUME IInv, onmsg_SEnter PROVE IInv'
  OBVIOUS
<1> USE SessionAssumption DEF onmsg_SEnter, Dialogs, netVars, authVars, roleVars, dialogVars, sceneVars, serverVars
<1>1. TypeOK'
  BY DEF IInv, TypeOK, Requests, RoleIds
<1>2. Safe'
  BY DEF IInv, TypeOK, Safe, WatchdogArmed, NoWatchdogWhenClosed, RetryWithinLimit, Up
<1> QED
  BY <1>1, <1>2 DEF IInv

LEMMA PingExpiresIInv == IInv /\ PingExpires => IInv'
<1> SUFFICES ASSUME IInv, PingExpires PROVE IInv'
  OBVIOUS
<1> USE SessionAssumption DEF PingExpires, netVars, authVars, roleVars, dialogVars, sceneVars, serverVars
<1>1. TypeOK'
  BY DEF IInv, TypeOK, Requests, RoleIds
<1>2. Safe'
  BY DEF IInv, TypeOK, Safe, WatchdogArmed, NoWatchdogWhenClosed, RetryWithinLimit, Up
<1> QED
  BY <1>1, <1>2 DEF IInv

LEMMA KeepaliveExpiresIInv == IInv /\ KeepaliveExpires => IInv'
<1> SUFFICES ASSUME IInv, KeepaliveExpires PROVE IInv'
  OBVIOUS
<1> USE SessionAssumption DEF KeepaliveExpires, netVars, authVars, roleVars, dialogVars, sceneVars, serverVars
<1>1. TypeOK'
  BY DEF IInv, TypeOK, Requests, RoleIds
<1>2. Safe'
  BY DEF IInv, TypeOK, Safe, WatchdogArmed, NoWatchdogWhenClosed, RetryWithinLimit, Up
<1> QED
  BY <1>1, <1>2 DEF IInv

LEMMA second_updateIInv == IInv /\ second_update => IInv'
<1> SUFFICES ASSUME IInv, second_update PROVE IInv'
  OBVIOUS
<1> USE SessionAssumption DEF second_update, PingDue, KeepaliveDue, reconnect, Close, netVars, authVars, roleVars, dialogVars, sceneVars, serverVars
<1>1. TypeOK'
  BY DEF IInv, TypeOK, Requests, RoleIds
<1>2. Safe'
  BY DEF IInv, TypeOK, Safe, WatchdogArmed, NoWatchdogWhenClosed, RetryWithinLimit, Up
<1> QED
  BY <1>1, <1>2 DEF IInv

LEMMA LogoutIInv == IInv /\ Logout => IInv'
<1> SUFFICES ASSUME IInv, Logout PROVE IInv'
  OBVIOUS
<1> USE SessionAssumption DEF Logout, netVars, authVars, roleVars, dialogVars, sceneVars, serverVars
<1>1. TypeOK'
  <2>1. CASE LoggedInPlatform
    <3>1. role_logout("to_login") /\ "to_login" \in LogoutType
      BY <2>1 DEF LogoutType
    <3> QED
      BY <2>1, <3>1, RoleLogoutType DEF IInv, TypeOK
  <2>2. CASE ~LoggedInPlatform
    BY <2>2 DEF IInv, TypeOK
  <2> QED
    BY <2>1, <2>2
<1>2. Safe'
  BY DEF role_logout, close, Close, IInv, TypeOK, Safe, WatchdogArmed, NoWatchdogWhenClosed, RetryWithinLimit, Up
<1> QED
  BY <1>1, <1>2 DEF IInv

LEMMA OnLoginSceneLoadedIInv == IInv /\ OnLoginSceneLoaded => IInv'
<1> SUFFICES ASSUME IInv, OnLoginSceneLoaded PROVE IInv'
  OBVIOUS
<1> USE SessionAssumption DEF OnLoginSceneLoaded, connect, netVars, authVars, roleVars, dialogVars, sceneVars, serverVars
<1>1. TypeOK'
  <2>1. CASE loading = "to_login"
    <3>1. Show("dlglogin", {}) /\ "dlglogin" \in Dialogs
      BY <2>1 DEF Dialogs
    <3>2. shown' \subseteq Dialogs /\ opening' \subseteq Dialogs
      BY <3>1, ShowType DEF IInv
    <3> QED
      BY <2>1, <3>2 DEF IInv, TypeOK
  <2>2. CASE loading # "to_login"
    <3>1. c2s' = <<>> /\ s2c' = <<>> /\ shown' = {} /\ opening' = opening
          /\ link' = "connecting"
          /\ AutoReconnect' = TRUE /\ recvSPingExpireTime' \in {"nil", recvSPingExpireTime}
      BY <2>2
    <3>2. c2s' \in Seq(Requests) /\ s2c' \in Seq(Replies) /\ shown' \subseteq Dialogs
      BY <3>1, Emptied
    <3>3. recvSPingExpireTime' \in {"nil", "armed", "due"}
      BY <3>1 DEF IInv, TypeOK
    <3> QED
      BY <3>1, <3>2, <3>3 DEF IInv, TypeOK
  <2> QED
    BY <2>1, <2>2
<1>2. Safe'
  BY DEF IInv, TypeOK, Safe, WatchdogArmed, NoWatchdogWhenClosed, RetryWithinLimit, Up
<1> QED
  BY <1>1, <1>2 DEF IInv

LEMMA PlayerLogsInIInv == IInv /\ PlayerLogsIn => IInv'
<1> SUFFICES ASSUME IInv, PlayerLogsIn PROVE IInv'
  OBVIOUS
<1> USE SessionAssumption DEF PlayerLogsIn, connect, DroppedReported, NetworkAbort, netVars, authVars, roleVars, dialogVars, sceneVars, serverVars
<1>1. TypeOK'
  <2>1. CASE LoggedInPlatform
    <3>1. c2s' = <<>> /\ s2c' = <<>> /\ link' = "connecting" /\ AutoReconnect' = FALSE
          /\ recvSPingExpireTime' \in {"nil", recvSPingExpireTime}
          /\ isOnline' \in {FALSE, isOnline} /\ UNCHANGED LoggedInPlatform
      BY <2>1
    <3>2. c2s' \in Seq(Requests) /\ s2c' \in Seq(Replies)
      BY <3>1, Emptied
    <3>3. recvSPingExpireTime' \in {"nil", "armed", "due"} /\ isOnline' \in BOOLEAN
      BY <3>1 DEF IInv, TypeOK
    <3> QED
      BY <3>1, <3>2, <3>3 DEF IInv, TypeOK
  <2>2. CASE ~LoggedInPlatform
    BY <2>2 DEF IInv, TypeOK
  <2> QED
    BY <2>1, <2>2
<1>2. Safe'
  BY DEF IInv, TypeOK, Safe, WatchdogArmed, NoWatchdogWhenClosed, RetryWithinLimit, Up
<1> QED
  BY <1>1, <1>2 DEF IInv

LEMMA PlayerCreatesRoleIInv == IInv /\ PlayerCreatesRole => IInv'
<1> SUFFICES ASSUME IInv, PlayerCreatesRole PROVE IInv'
  OBVIOUS
<1> USE SessionAssumption DEF PlayerCreatesRole, MayChoose, MayAct, netVars, authVars, roleVars, dialogVars, sceneVars, serverVars
<1>1. TypeOK'
  <2>1. [type |-> "CCreateRole"] \in Requests
    BY DEF Requests
  <2>2. c2s' \in Seq(Requests)
    BY <2>1, SendType DEF IInv, TypeOK
  <2> QED
    BY <2>2 DEF IInv, TypeOK
<1>2. Safe'
  BY DEF IInv, TypeOK, Safe, WatchdogArmed, NoWatchdogWhenClosed, RetryWithinLimit, Up
<1> QED
  BY <1>1, <1>2 DEF IInv

LEMMA PlayerTurnsIInv ==
  ASSUME IInv, NEW from \in Dialogs, NEW to \in Dialogs,
         PlayerTurns(from, to)
  PROVE  IInv'
<1> USE SessionAssumption DEF PlayerTurns, netVars, authVars, roleVars, dialogVars, sceneVars, serverVars
<1>1. TypeOK'
  <2>1. Show(to, shown \ {from}) /\ shown \ {from} \in SUBSET Dialogs
    BY DEF IInv, TypeOK
  <2>2. shown' \subseteq Dialogs /\ opening' \subseteq Dialogs
    BY <2>1, ShowType DEF IInv
  <2> QED
    BY <2>2 DEF IInv, TypeOK
<1>2. Safe'
  BY DEF IInv, TypeOK, Safe, WatchdogArmed, NoWatchdogWhenClosed, RetryWithinLimit, Up
<1> QED
  BY <1>1, <1>2 DEF IInv

LEMMA PlayerReturnsIInv == IInv /\ PlayerReturns => IInv'
<1>1. {"dlglogin", "dlgchooseplayer", "dlgcreatplayer"} \subseteq Dialogs
  BY DEF Dialogs
<1> QED
  BY <1>1, PlayerTurnsIInv DEF PlayerReturns

LEMMA PlayerClosesAlertIInv == IInv /\ PlayerClosesAlert => IInv'
<1> SUFFICES ASSUME IInv, PlayerClosesAlert PROVE IInv'
  OBVIOUS
<1> USE SessionAssumption DEF PlayerClosesAlert, AskSdkLogout, netVars, authVars, roleVars, dialogVars, sceneVars, serverVars
<1>1. TypeOK'
  <2>1. CASE role_logout("to_login") /\ UNCHANGED <<reconnectCount, authVars>>
    <3>1. "to_login" \in LogoutType
      BY DEF LogoutType
    <3> QED
      BY <2>1, <3>1, RoleLogoutType DEF IInv, TypeOK
  <2>2. CASE AskSdkLogout /\ shown' = shown \ Alerts /\ UNCHANGED opening
    BY <2>2 DEF IInv, TypeOK, AskSdkLogout
  <2>3. CASE /\ shown' = shown \ Alerts
             /\ UNCHANGED <<opening, netVars, authVars, roleVars, sceneVars, c2s, s2c>>
    BY <2>3 DEF IInv, TypeOK
  <2> QED
    BY <2>1, <2>2, <2>3
<1>2. Safe'
  BY DEF role_logout, close, Close, IInv, TypeOK, Safe, WatchdogArmed, NoWatchdogWhenClosed, RetryWithinLimit, Up
<1> QED
  BY <1>1, <1>2 DEF IInv

LEMMA PlayerLogsOutIInv == IInv /\ PlayerLogsOut => IInv'
<1> SUFFICES ASSUME IInv, PlayerLogsOut PROVE IInv'
  OBVIOUS
<1> USE SessionAssumption DEF PlayerLogsOut, AskSdkLogout, netVars, authVars, roleVars, dialogVars, sceneVars, serverVars
<1>1. TypeOK'
  <2>1. CASE AskSdkLogout /\ UNCHANGED dialogVars
    BY <2>1 DEF IInv, TypeOK, AskSdkLogout
  <2>2. CASE role_logout("to_choose_player") /\ UNCHANGED <<reconnectCount, authVars>>
    <3>1. "to_choose_player" \in LogoutType
      BY DEF LogoutType
    <3> QED
      BY <2>2, <3>1, RoleLogoutType DEF IInv, TypeOK
  <2> QED
    BY <2>1, <2>2
<1>2. Safe'
  BY DEF role_logout, close, Close, IInv, TypeOK, Safe, WatchdogArmed, NoWatchdogWhenClosed, RetryWithinLimit, Up
<1> QED
  BY <1>1, <1>2 DEF IInv

LEMMA DialogLoadedIInv == IInv /\ DialogLoaded => IInv'
<1> SUFFICES ASSUME IInv, DialogLoaded PROVE IInv'
  OBVIOUS
<1> USE SessionAssumption DEF DialogLoaded, netVars, authVars, roleVars, dialogVars, sceneVars, serverVars
<1>1. TypeOK'
  BY DEF IInv, TypeOK
<1>2. Safe'
  BY DEF IInv, TypeOK, Safe, WatchdogArmed, NoWatchdogWhenClosed, RetryWithinLimit, Up
<1> QED
  BY <1>1, <1>2 DEF IInv

LEMMA DestroyAllDlgsIInv == IInv /\ DestroyAllDlgs => IInv'
<1> SUFFICES ASSUME IInv, DestroyAllDlgs PROVE IInv'
  OBVIOUS
<1> USE SessionAssumption DEF DestroyAllDlgs, netVars, authVars, roleVars, dialogVars, sceneVars, serverVars
<1>1. TypeOK'
  BY DEF IInv, TypeOK
<1>2. Safe'
  BY DEF IInv, TypeOK, Safe, WatchdogArmed, NoWatchdogWhenClosed, RetryWithinLimit, Up
<1> QED
  BY <1>1, <1>2 DEF IInv

(* The server's answers, and the requests they answer, are well typed.     *)
LEMMA HeadType ==
  ASSUME TypeOK
  PROVE  /\ c2s # <<>> => Head(c2s) \in Requests /\ Tail(c2s) \in Seq(Requests)
         /\ s2c # <<>> => Head(s2c) \in Replies /\ Tail(s2c) \in Seq(Replies)
  BY DEF TypeOK

LEMMA AnswerType ==
  ASSUME TypeOK, NEW req \in Requests, Answer(req)
  PROVE  /\ s2c' \in Seq(Replies)
         /\ account' \in 0..MaxRoles
         /\ srvRole' \in RoleIds \cup {0}
<1> USE SessionAssumption DEF TypeOK, serverVars
<1>1. CASE req.type = "CGetRoleList"
  <2>1. PICK r \in [1..account -> 1..account] :
           s2c' = Append(s2c, [type |-> "SGetRoleList", roles |-> r])
    BY <1>1 DEF Answer
  <2>2. r \in [1..account -> RoleIds]
    BY DEF RoleIds
  <2>3. r \in Seq(RoleIds)
    BY <2>2, SeqDef
  <2>4. [type |-> "SGetRoleList", roles |-> r] \in Replies
    BY <2>3 DEF Replies
  <2>5. UNCHANGED serverVars
    BY <1>1 DEF Answer
  <2> QED
    BY <2>1, <2>4, <2>5
<1>2. CASE req.type = "CCreateRole"
  <2>1. \A i \in RoleIds, e \in {"OK", "ERR"} :
           [type |-> "SCreateRole", err |-> e, roleid |-> i] \in Replies
    BY DEF Replies
  <2>2. CASE account < MaxRoles
    <3>1. account + 1 \in RoleIds
      BY <2>2 DEF RoleIds
    <3>2. /\ account' = account + 1
          /\ s2c' = Append(s2c, [type |-> "SCreateRole", err |-> "OK", roleid |-> account + 1])
          /\ UNCHANGED srvRole
      BY <1>2, <2>2 DEF Answer
    <3>3. [type |-> "SCreateRole", err |-> "OK", roleid |-> account + 1] \in Replies
      BY <2>1, <3>1
    <3>4. s2c' \in Seq(Replies)
      BY <3>2, <3>3
    <3>5. account' \in 0..MaxRoles
      BY <2>2, <3>2
    <3> QED
      BY <3>2, <3>4, <3>5
  <2>3. CASE ~(account < MaxRoles)
    <3>1. MaxRoles \in RoleIds
      BY DEF RoleIds
    <3>2. /\ s2c' = Append(s2c, [type |-> "SCreateRole", err |-> "ERR", roleid |-> MaxRoles])
          /\ UNCHANGED serverVars
      BY <1>2, <2>3 DEF Answer
    <3>3. [type |-> "SCreateRole", err |-> "ERR", roleid |-> MaxRoles] \in Replies
      BY <2>1, <3>1
    <3>4. s2c' \in Seq(Replies)
      BY <3>2, <3>3
    <3> QED
      BY <3>2, <3>4
  <2> QED
    BY <2>2, <2>3
<1>3. CASE req.type = "CRoleLogin"
  <2>1. PICK err \in LoginErrors \cup {"OK"} :
           /\ s2c' = Append(s2c, [type |-> "SRoleLogin", err |-> err])
           /\ srvRole' = IF err = "OK" THEN req.roleid ELSE srvRole
           /\ UNCHANGED account
    BY <1>3 DEF Answer
  <2>2. [type |-> "SRoleLogin", err |-> err] \in Replies
    BY <2>1 DEF Replies
  <2>3. req.roleid \in RoleIds \cup {0}
    BY <1>3 DEF Requests
  <2> QED
    BY <2>1, <2>2, <2>3
<1>4. CASE req.type = "CRoleRelogin"
  <2> DEFINE e == IF srvRole = req.roleid THEN "OK" ELSE "OTHER"
  <2>1. [type |-> "SRoleRelogin", err |-> e] \in Replies
    BY DEF Replies
  <2>2. s2c' = Append(s2c, [type |-> "SRoleRelogin", err |-> e]) /\ UNCHANGED serverVars
    BY <1>4 DEF Answer
  <2> HIDE DEF e
  <2> QED
    BY <2>1, <2>2
<1> QED
  BY <1>1, <1>2, <1>3, <1>4 DEF Requests

LEMMA ServerAnswersIInv == IInv /\ ServerAnswers => IInv'
<1> SUFFICES ASSUME IInv, ServerAnswers PROVE IInv'
  OBVIOUS
<1> USE SessionAssumption DEF netVars, authVars, roleVars, dialogVars, sceneVars
<1>1. Head(c2s) \in Requests /\ c2s' \in Seq(Requests)
  BY HeadType DEF ServerAnswers, IInv
<1>2. /\ s2c' \in Seq(Replies)
      /\ account' \in 0..MaxRoles
      /\ srvRole' \in RoleIds \cup {0}
  BY <1>1, AnswerType DEF ServerAnswers, IInv
<1>3. TypeOK'
  BY <1>1, <1>2 DEF ServerAnswers, IInv, TypeOK, RoleIds
<1>4. Safe'
  BY DEF ServerAnswers, IInv, Safe, WatchdogArmed, NoWatchdogWhenClosed,
         RetryWithinLimit, Up
<1> QED
  BY <1>3, <1>4 DEF IInv

LEMMA ReplyFields ==
  ASSUME NEW m \in Replies
  PROVE  /\ m.type = "SGetRoleList" => m.roles \in Seq(RoleIds)
         /\ m.type = "SCreateRole" => m.roleid \in RoleIds
  BY DEF Replies

LEMMA onmsg_SGetRoleListIInv == IInv /\ onmsg_SGetRoleList => IInv'
<1> SUFFICES ASSUME IInv, onmsg_SGetRoleList PROVE IInv'
  OBVIOUS
<1> USE SessionAssumption DEF netVars, authVars, roleVars, dialogVars, sceneVars, serverVars
<1>1. Head(s2c) \in Replies /\ s2c' \in Seq(Replies) /\ link = "open"
  BY HeadType DEF onmsg_SGetRoleList, Receive, IInv
<1>2. roles' \in Seq(RoleIds)
  BY <1>1, ReplyFields DEF onmsg_SGetRoleList, Receive
<1> DEFINE d == IF loginroleid = 0 THEN shown \ {"disconnection"} ELSE shown
           next == IF roles' # <<>> THEN "dlgchooseplayer" ELSE "dlgcreatplayer"
<1>3. IF scene = "login" /\ "dlgcreatplayer" \in d
      THEN shown' = d /\ UNCHANGED opening
      ELSE Show(next, d \ {"dlglogin"})
  BY DEF onmsg_SGetRoleList
<1>4. shown' \subseteq Dialogs /\ opening' \subseteq Dialogs
  <2>1. d \in SUBSET Dialogs /\ d \ {"dlglogin"} \in SUBSET Dialogs
    BY DEF IInv, TypeOK
  <2>2. next \in Dialogs
    BY DEF Dialogs
  <2> HIDE DEF d, next
  <2>3. CASE shown' = d /\ UNCHANGED opening
    BY <2>1, <2>3 DEF IInv, TypeOK
  <2>4. CASE Show(next, d \ {"dlglogin"})
    BY <2>1, <2>2, <2>4, ShowType DEF IInv
  <2> QED
    BY <1>3, <2>3, <2>4
<1>5. reconnectCount' = IF loginroleid = 0 THEN 0 ELSE reconnectCount
  BY DEF onmsg_SGetRoleList
<1>6. TypeOK'
  BY <1>1, <1>2, <1>4, <1>5 DEF onmsg_SGetRoleList, IInv, TypeOK, CountLimit
<1>7. WatchdogArmed' /\ NoWatchdogWhenClosed' /\ RetryWithinLimit'
  BY <1>1 DEF onmsg_SGetRoleList, IInv, Safe, WatchdogArmed, NoWatchdogWhenClosed,
              RetryWithinLimit, Up
<1> QED
  BY <1>6, <1>7 DEF IInv, Safe

(* What role_login sends is a request, if the index is one of the list.    *)
LEMMA RoleLoginType ==
  ASSUME TypeOK, NEW rs \in Seq(RoleIds), NEW i \in DOMAIN rs, role_login(rs, i)
  PROVE  selectedroleid' \in Nat /\ c2s' \in Seq(Requests)
<1>1. [type |-> "CRoleLogin", roleid |-> rs[i]] \in Requests
  BY DEF Requests
<1> QED
  BY <1>1, SendType DEF role_login, TypeOK

LEMMA onmsg_SCreateRoleIInv == IInv /\ onmsg_SCreateRole => IInv'
<1> SUFFICES ASSUME IInv, onmsg_SCreateRole PROVE IInv'
  OBVIOUS
<1> USE SessionAssumption DEF netVars, authVars, roleVars, dialogVars, sceneVars, serverVars
<1>1. Head(s2c) \in Replies /\ Head(s2c).type = "SCreateRole" /\ s2c' \in Seq(Replies)
  BY HeadType DEF onmsg_SCreateRole, Receive, IInv
<1>2. CASE Head(s2c).err = "OK"
  <2>1. roles' = Append(roles, Head(s2c).roleid) /\ Head(s2c).roleid \in RoleIds
    BY <1>1, <1>2, ReplyFields DEF onmsg_SCreateRole
  <2>2. roles' \in Seq(RoleIds) /\ Len(roles') \in DOMAIN roles'
    BY <2>1 DEF IInv, TypeOK
  <2>3. /\ role_login(roles', Len(roles'))
        /\ shown' = shown \ {"dlgcreatplayer"} /\ UNCHANGED opening
    BY <1>2 DEF onmsg_SCreateRole
  <2>4. selectedroleid' \in Nat /\ c2s' \in Seq(Requests)
    <3> DEFINE rs == roles'
               n == Len(roles')
    <3>1. rs \in Seq(RoleIds) /\ n \in DOMAIN rs
      BY <2>2
    <3>2. role_login(rs, n)
      BY <2>3
    <3>3. [type |-> "CRoleLogin", roleid |-> rs[n]] \in Requests
      BY <3>1 DEF Requests
    <3>4. n \in Nat
      BY <2>2
    <3> HIDE DEF rs, n
    <3> QED
      BY <3>2, <3>3, <3>4, SendType DEF role_login, IInv, TypeOK
  <2>5. TypeOK'
    BY <1>1, <2>2, <2>3, <2>4 DEF onmsg_SCreateRole, IInv, TypeOK, CountLimit
  <2>6. Safe'
    BY <2>3 DEF onmsg_SCreateRole, IInv, Safe, WatchdogArmed, NoWatchdogWhenClosed,
                RetryWithinLimit, Up
  <2> QED
    BY <2>5, <2>6 DEF IInv
<1>3. CASE Head(s2c).err # "OK"
  <2>1. /\ ShowSingleAlertDlg("createfailed", shown)
        /\ UNCHANGED <<roles, selectedroleid, c2s>>
    BY <1>3 DEF onmsg_SCreateRole
  <2>2. shown' \subseteq Dialogs /\ opening' \subseteq Dialogs
    <3>1. shown \in SUBSET Dialogs /\ "createfailed" \in Alerts
      BY DEF IInv, TypeOK, Alerts
    <3> QED
      BY <2>1, <3>1, AlertType DEF IInv
  <2>3. TypeOK'
    BY <1>1, <2>1, <2>2 DEF onmsg_SCreateRole, IInv, TypeOK, CountLimit
  <2>4. Safe'
    BY <2>1 DEF onmsg_SCreateRole, IInv, Safe, WatchdogArmed, NoWatchdogWhenClosed,
                RetryWithinLimit, Up
  <2> QED
    BY <2>3, <2>4 DEF IInv
<1> QED
  BY <1>2, <1>3

LEMMA onmsg_SRoleLoginIInv == IInv /\ onmsg_SRoleLogin => IInv'
<1> SUFFICES ASSUME IInv, onmsg_SRoleLogin PROVE IInv'
  OBVIOUS
<1> USE SessionAssumption DEF netVars, authVars, roleVars, dialogVars, sceneVars, serverVars
<1>1. s2c' \in Seq(Replies) /\ link = "open"
  BY HeadType DEF onmsg_SRoleLogin, Receive, IInv
<1>2. CASE /\ selectedroleid \in DOMAIN roles
           /\ loginroleid' = LoginRole
           /\ SessionEstablished
           /\ shown' = Recovered(shown) \ {"dlgchooseplayer"}
  <2>1. loginroleid' \in RoleIds
    BY <1>2 DEF LoginRole, IInv, TypeOK
  <2>2. TypeOK'
    BY <1>1, <1>2, <2>1
    DEF onmsg_SRoleLogin, IInv, TypeOK, CountLimit, SessionEstablished, Recovered
  <2>3. Safe'
    BY <1>1, <1>2
    DEF onmsg_SRoleLogin, IInv, Safe, WatchdogArmed, NoWatchdogWhenClosed,
        RetryWithinLimit, Up, SessionEstablished, Recovered
  <2> QED
    BY <2>2, <2>3 DEF IInv
<1>3. CASE /\ loginroleid' \in {0, loginroleid}
           /\ UNCHANGED <<recvSPingExpireTime, reconnectCount, shown>>
  <2>1. TypeOK'
    BY <1>1, <1>3 DEF onmsg_SRoleLogin, IInv, TypeOK, CountLimit
  <2>2. Safe'
    BY <1>1, <1>3
    DEF onmsg_SRoleLogin, IInv, Safe, WatchdogArmed, NoWatchdogWhenClosed,
        RetryWithinLimit, Up
  <2> QED
    BY <2>1, <2>2 DEF IInv
<1> QED
  BY <1>2, <1>3 DEF onmsg_SRoleLogin

LEMMA onmsg_SRoleReLoginIInv == IInv /\ onmsg_SRoleReLogin => IInv'
<1> SUFFICES ASSUME IInv, onmsg_SRoleReLogin PROVE IInv'
  OBVIOUS
<1> USE SessionAssumption DEF netVars, authVars, roleVars, dialogVars, sceneVars, serverVars
<1>1. s2c' \in Seq(Replies) /\ link = "open"
  BY HeadType DEF onmsg_SRoleReLogin, Receive, IInv
<1>2. CASE Head(s2c).err = "OK"
  <2>1. TypeOK'
    BY <1>1, <1>2
    DEF onmsg_SRoleReLogin, IInv, TypeOK, CountLimit, SessionEstablished, Recovered
  <2>2. Safe'
    BY <1>1, <1>2
    DEF onmsg_SRoleReLogin, IInv, Safe, WatchdogArmed, NoWatchdogWhenClosed,
        RetryWithinLimit, Up, SessionEstablished, Recovered
  <2> QED
    BY <2>1, <2>2 DEF IInv
<1>3. CASE Head(s2c).err # "OK"
  <2>1. [type |-> "CRoleLogin", roleid |-> loginroleid] \in Requests
    BY DEF Requests, IInv, TypeOK
  <2>2. c2s' \in Seq(Requests)
    <3>1. Send([type |-> "CRoleLogin", roleid |-> loginroleid])
      BY <1>3 DEF onmsg_SRoleReLogin
    <3>2. c2s \in Seq(Requests)
      BY DEF IInv, TypeOK
    <3> QED
      BY <2>1, <3>1, <3>2, SendType
  <2>3. TypeOK'
    BY <1>1, <1>3, <2>2 DEF onmsg_SRoleReLogin, IInv, TypeOK, CountLimit
  <2>4. Safe'
    BY <1>1, <1>3
    DEF onmsg_SRoleReLogin, IInv, Safe, WatchdogArmed, NoWatchdogWhenClosed,
        RetryWithinLimit, Up
  <2> QED
    BY <2>3, <2>4 DEF IInv
<1> QED
  BY <1>2, <1>3

LEMMA PlayerPlaysIInv == IInv /\ PlayerPlays => IInv'
<1> SUFFICES ASSUME IInv, PlayerPlays PROVE IInv'
  OBVIOUS
<1> USE SessionAssumption DEF netVars, authVars, roleVars, dialogVars, sceneVars, serverVars
<1>1. PICK i \in DOMAIN roles : role_login(roles, i)
  BY DEF PlayerPlays
<1>2. selectedroleid' \in Nat /\ c2s' \in Seq(Requests)
  BY <1>1, RoleLoginType DEF IInv, TypeOK
<1>3. TypeOK'
  BY <1>2 DEF PlayerPlays, IInv, TypeOK, CountLimit
<1>4. Safe'
  BY DEF PlayerPlays, IInv, Safe, WatchdogArmed, NoWatchdogWhenClosed,
         RetryWithinLimit, Up
<1> QED
  BY <1>3, <1>4 DEF IInv
-----------------------------------------------------------------------------
LEMMA InitIInv == Init => IInv
<1> SUFFICES ASSUME Init PROVE IInv
  OBVIOUS
<1>1. /\ roles \in Seq(RoleIds) /\ c2s \in Seq(Requests) /\ s2c \in Seq(Replies)
      /\ shown \subseteq Dialogs /\ opening \subseteq Dialogs
  BY DEF Init, Dialogs
<1>2. reconnectCount \in 0..CountLimit
  BY SessionAssumption DEF Init, CountLimit
<1>3. TypeOK
  BY <1>1, <1>2 DEF Init, TypeOK
<1>4. Safe
  BY DEF Init, Safe, WatchdogArmed, NoWatchdogWhenClosed, RetryWithinLimit, Up
<1> QED
  BY <1>3, <1>4 DEF IInv

LEMMA StutterIInv == IInv /\ UNCHANGED vars => IInv'
  BY DEF vars, netVars, authVars, roleVars, dialogVars, sceneVars, serverVars, IInv, TypeOK, Safe,
         WatchdogArmed, NoWatchdogWhenClosed, RetryWithinLimit, Up,
         CountLimit

LEMMA NextIInv == IInv /\ [Next]_vars => IInv'
<1> SUFFICES ASSUME IInv, [Next]_vars PROVE IInv'
  OBVIOUS
<1>1. CASE Socket
  BY <1>1, SocketConnectedIInv, SocketAbortedIInv, SocketRetriesIInv, SocketGoesSilentIInv
  DEF Socket
<1>2. CASE Server
  BY <1>2, ServerAnswersIInv, ServerForgetsIInv DEF Server
<1>3. CASE Message
  BY <1>3, onmsg_OnlineAnnounceIInv, onmsg_SGetRoleListIInv, onmsg_SCreateRoleIInv,
     onmsg_SRoleLoginIInv, onmsg_SRoleReLoginIInv, onmsg_SPingIInv, onmsg_KeepAliveIInv,
     onmsg_ErrorInfoIInv, onmsg_SKickRoleIInv, onmsg_SEnterIInv DEF Message
<1>4. CASE Timers
  BY <1>4, PingExpiresIInv, KeepaliveExpiresIInv, second_updateIInv DEF Timers
<1>5. CASE Logout \/ OnLoginSceneLoaded
  BY <1>5, LogoutIInv, OnLoginSceneLoadedIInv
<1>6. CASE Player
  BY <1>6, PlayerLogsInIInv, PlayerPlaysIInv, PlayerCreatesRoleIInv, PlayerReturnsIInv,
     PlayerClosesAlertIInv, PlayerLogsOutIInv DEF Player
<1>7. CASE UIManager
  BY <1>7, DialogLoadedIInv, DestroyAllDlgsIInv DEF UIManager
<1> QED
  BY <1>1, <1>2, <1>3, <1>4, <1>5, <1>6, <1>7, StutterIInv DEF Next

(* The inductive invariant holds in every state.                           *)
THEOREM Inductive == Spec => []IInv
  BY InitIInv, NextIInv, PTL DEF Spec
-----------------------------------------------------------------------------
(* Type correctness of the session.                                        *)
THEOREM TypeCorrect == Spec => []TypeOK
<1>1. IInv => TypeOK
  BY DEF IInv
<1> QED
  BY <1>1, Inductive, PTL

(* A role never plays on a connection that nobody watches.                 *)
THEOREM AlwaysWatched == Spec => []WatchdogArmed
<1>1. IInv => WatchdogArmed
  BY DEF IInv, Safe
<1> QED
  BY <1>1, Inductive, PTL

(* No watchdog survives its connection.                                    *)
THEOREM NoStaleWatchdog == Spec => []NoWatchdogWhenClosed
<1>1. IInv => NoWatchdogWhenClosed
  BY DEF IInv, Safe
<1> QED
  BY <1>1, Inductive, PTL

(* The socket never retries beyond the limit.                              *)
THEOREM RetryBounded == Spec => []RetryWithinLimit
<1>1. IInv => RetryWithinLimit
  BY DEF IInv, Safe
<1> QED
  BY <1>1, Inductive, PTL

-----------------------------------------------------------------------------
(***************************************************************************)
(* The disconnection dialog goes stale only through a load that was under  *)
(* way.  The handlers that restart the count hide it, giving up hides it,  *)
(* and every other step keeps the count and does not show it.              *)
(***************************************************************************)
StaysHonest == DialogStale' => DialogStale \/ "disconnection" \in opening

LEMMA CountKept ==
  ASSUME UNCHANGED reconnectCount,
         "disconnection" \in shown' => "disconnection" \in shown \cup opening
  PROVE  StaysHonest
  BY DEF StaysHonest, DialogStale

LEMMA DialogHidden ==
  ASSUME "disconnection" \notin shown'
  PROVE  StaysHonest
  BY DEF StaysHonest, DialogStale

LEMMA RoleLogoutHides ==
  ASSUME NEW t, role_logout(t)
  PROVE  "disconnection" \notin shown'
  BY ShowOnly DEF role_logout

LEMMA AbortHonest == ASSUME IInv, SocketAborted PROVE StaysHonest
<1> USE DEF SocketAborted
<1>1. TypeOK
  BY DEF IInv
<1>2. CASE ~AutoReconnect
  BY <1>2, CountKept DEF on_abort, dialogVars
<1>3. CASE AutoReconnect
  <2>1. reconnectCount' = NextCount
    BY <1>3 DEF on_abort
  <2>2. CASE GiveUp(NextCount)
    BY <1>1, <1>3, <2>2, AbortDialogs, DialogHidden
  <2>3. CASE ~GiveUp(NextCount) /\ NextCount > QuietReconnects
    <3>1. NextCount \in (QuietReconnects + 1)..(QuietReconnects + MaxReconnectCount)
      BY <1>1, <2>3, NextCountType, SessionAssumption DEF CountLimit
    <3> QED
      BY <2>1, <3>1 DEF StaysHonest, DialogStale
  <2>4. CASE ~GiveUp(NextCount) /\ NextCount <= QuietReconnects
    <3>1. shown' = shown
      BY <1>1, <1>3, <2>4, AbortDialogs
    <3>2. reconnectCount <= QuietReconnects /\ reconnectCount \in Nat
      BY <1>1, <2>4, NextCountType, SessionAssumption DEF TypeOK, CountLimit
    <3>3. reconnectCount \notin (QuietReconnects + 1)..(QuietReconnects + MaxReconnectCount)
      BY <3>2, SessionAssumption
    <3> QED
      BY <3>1, <3>3 DEF StaysHonest, DialogStale
  <2> QED
    BY <1>1, <2>2, <2>3, <2>4, NextCountType, SessionAssumption DEF CountLimit
<1> QED
  BY <1>2, <1>3

LEMMA SocketHonest == ASSUME IInv, Socket PROVE StaysHonest
<1>1. CASE SocketConnected \/ SocketRetries \/ SocketGoesSilent
  BY <1>1, CountKept DEF SocketConnected, SocketRetries, SocketGoesSilent, dialogVars
<1> QED
  BY <1>1, AbortHonest DEF Socket

LEMMA MessageHonest == ASSUME Message PROVE StaysHonest
<1>1. CASE onmsg_OnlineAnnounce \/ onmsg_SPing \/ onmsg_KeepAlive \/ onmsg_SEnter
  BY <1>1, CountKept
  DEF onmsg_OnlineAnnounce, onmsg_SPing, onmsg_KeepAlive, onmsg_SEnter, dialogVars, netVars
<1>2. CASE onmsg_SGetRoleList
  <2> DEFINE d == IF loginroleid = 0 THEN shown \ {"disconnection"} ELSE shown
             next == IF roles' # <<>> THEN "dlgchooseplayer" ELSE "dlgcreatplayer"
  <2>1. \/ shown' = d
        \/ Show(next, d \ {"dlglogin"})
    BY <1>2 DEF onmsg_SGetRoleList
  <2>2. shown' \subseteq d \cup {next}
    <3> HIDE DEF d, next
    <3>1. CASE Show(next, d \ {"dlglogin"})
      BY <3>1, ShowOnly
    <3> QED
      BY <2>1, <3>1
  <2>3. CASE loginroleid = 0
    <3>1. "disconnection" \notin shown'
      BY <2>2, <2>3
    <3> QED
      BY <3>1, DialogHidden
  <2>4. CASE loginroleid # 0
    <3>1. UNCHANGED reconnectCount
      BY <1>2, <2>4 DEF onmsg_SGetRoleList
    <3>2. "disconnection" \in shown' => "disconnection" \in shown
      BY <2>2, <2>4
    <3> QED
      BY <3>1, <3>2, CountKept
  <2> QED
    BY <2>3, <2>4
<1>3. CASE onmsg_SCreateRole
  <2>1. shown' \subseteq shown \cup {"createfailed"}
    <3>1. CASE ShowSingleAlertDlg("createfailed", shown)
      BY <3>1, AlertOnly
    <3> QED
      BY <1>3, <3>1 DEF onmsg_SCreateRole
  <2> QED
    BY <1>3, <2>1, CountKept DEF onmsg_SCreateRole, netVars
<1>4. CASE onmsg_SRoleLogin
  <2>1. CASE shown' = Recovered(shown) \ {"dlgchooseplayer"}
    BY <2>1, DialogHidden DEF Recovered
  <2>2. CASE UNCHANGED <<reconnectCount, shown>>
    BY <2>2, CountKept
  <2> QED
    BY <1>4, <2>1, <2>2 DEF onmsg_SRoleLogin
<1>5. CASE onmsg_SRoleReLogin
  <2>1. CASE shown' = Recovered(shown)
    BY <2>1, DialogHidden DEF Recovered
  <2>2. CASE UNCHANGED <<reconnectCount, shown>>
    BY <2>2, CountKept
  <2> QED
    BY <1>5, <2>1, <2>2 DEF onmsg_SRoleReLogin
<1>6. CASE onmsg_ErrorInfo
  <2>1. shown' \subseteq shown \cup {"kickedbyanother"}
    <3>1. CASE ShowSingleAlertDlg("kickedbyanother", shown)
      BY <3>1, AlertOnly
    <3> QED
      BY <1>6, <3>1 DEF onmsg_ErrorInfo, dialogVars
  <2> QED
    BY <1>6, <2>1, CountKept DEF onmsg_ErrorInfo
<1>7. CASE onmsg_SKickRole
  BY <1>7, RoleLogoutHides, DialogHidden DEF onmsg_SKickRole
<1> QED
  BY <1>1, <1>2, <1>3, <1>4, <1>5, <1>6, <1>7 DEF Message

LEMMA PlayerHonest == ASSUME Player PROVE StaysHonest
<1>1. CASE PlayerLogsIn \/ PlayerPlays \/ PlayerCreatesRole
  BY <1>1, CountKept DEF PlayerLogsIn, PlayerPlays, PlayerCreatesRole, dialogVars, netVars
<1>2. CASE PlayerReturns
  <2>1. PICK from, to : PlayerTurns(from, to) /\ to # "disconnection"
    BY <1>2 DEF PlayerReturns
  <2>2. shown' \subseteq shown \cup {to}
    BY <2>1, ShowOnly DEF PlayerTurns
  <2> QED
    BY <2>1, <2>2, CountKept DEF PlayerTurns, netVars
<1>3. CASE PlayerClosesAlert
  <2>1. CASE role_logout("to_login")
    BY <2>1, RoleLogoutHides, DialogHidden
  <2>2. CASE shown' = shown \ Alerts /\ UNCHANGED netVars
    BY <2>2, CountKept DEF netVars
  <2> QED
    BY <1>3, <2>1, <2>2 DEF PlayerClosesAlert, AskSdkLogout
<1>4. CASE PlayerLogsOut
  <2>1. CASE role_logout("to_choose_player")
    BY <2>1, RoleLogoutHides, DialogHidden
  <2>2. CASE UNCHANGED <<dialogVars, netVars>>
    BY <2>2, CountKept DEF dialogVars, netVars
  <2> QED
    BY <1>4, <2>1, <2>2 DEF PlayerLogsOut, AskSdkLogout
<1> QED
  BY <1>1, <1>2, <1>3, <1>4 DEF Player

LEMMA NextHonest == ASSUME IInv, Next PROVE StaysHonest
<1>1. CASE Server \/ Timers
  BY <1>1, CountKept
  DEF Server, ServerAnswers, ServerForgets, Timers, PingExpires, KeepaliveExpires,
      second_update, dialogVars, netVars
<1>2. CASE Logout
  <2>1. CASE role_logout("to_login")
    BY <2>1, RoleLogoutHides, DialogHidden
  <2>2. CASE UNCHANGED <<dialogVars, reconnectCount>>
    BY <2>2, CountKept DEF dialogVars
  <2> QED
    BY <1>2, <2>1, <2>2 DEF Logout
<1>3. CASE OnLoginSceneLoaded
  <2>1. "disconnection" \notin shown'
    <3>1. CASE Show("dlglogin", {})
      <4>1. shown' \subseteq {} \cup {"dlglogin"}
        BY <3>1, ShowOnly
      <4> QED
        BY <4>1
    <3>2. CASE shown' = {}
      BY <3>2
    <3> QED
      BY <1>3, <3>1, <3>2 DEF OnLoginSceneLoaded
  <2> QED
    BY <2>1, DialogHidden
<1>4. CASE UIManager
  <2>1. UNCHANGED reconnectCount /\ shown' \subseteq shown \cup opening
    BY <1>4 DEF UIManager, DialogLoaded, DestroyAllDlgs, netVars
  <2> QED
    BY <2>1, CountKept
<1> QED
  BY <1>1, <1>2, <1>3, <1>4, SocketHonest, MessageHonest, PlayerHonest DEF Next

(* No recovery, no logout and no giving up leaves the disconnection dialog *)
(* up: one that is up when nothing is counted was still being loaded when  *)
(* it was hidden.                                                          *)
THEOREM DialogHonest == Spec => DisconnectionDlgHonest
<1>1. IInv /\ [Next]_vars => [StaysHonest]_vars
  BY NextHonest
<1> QED
  BY <1>1, Inductive, PTL DEF Spec, DisconnectionDlgHonest, StaysHonest
-----------------------------------------------------------------------------
(***************************************************************************)
(* Client and server agree.  The player of a Calm session does nothing     *)
(* while a request is under way.                                           *)
(***************************************************************************)
Calm == Patient /\ PromptClose /\ LoginErrors \subseteq {"BUSY"}

(* One message is under way at most: every handler that sends was called   *)
(* with the only one, and the player waits.                                *)
Silent == link # "open" => c2s = <<>> /\ s2c = <<>>
OneAtATime == Len(c2s) + Len(s2c) <= 1

(* A role that logged out is nobody until the login scene is there, and    *)
(* nothing connects it.                                                    *)
Leaving == loading # "none" =>
    loginroleid = 0 /\ ~AutoReconnect /\ link \in {"closed", "closing"}

Chosen == selectedroleid \in DOMAIN roles

(* The role that plays is the selected one, and the server holds no other. *)
Playing == loginroleid # 0 =>
    /\ Chosen /\ roles[selectedroleid] = loginroleid
    /\ srvRole \in {0, loginroleid}

(* What the message under way says of the client and of the server.        *)
AskedRight(m) ==
    /\ m.type \in {"CGetRoleList", "CCreateRole"} => loginroleid = 0
    /\ m.type = "CRoleLogin" =>
          /\ Chosen /\ roles[selectedroleid] = m.roleid
          /\ loginroleid \in {0, m.roleid}
    /\ m.type = "CRoleRelogin" => m.roleid = loginroleid /\ loginroleid # 0

ToldRight(m) ==
    /\ m.type \in {"SGetRoleList", "SCreateRole"} => loginroleid = 0
    /\ m.type = "SRoleLogin" =>
          /\ m.err # "OTHER"
          /\ m.err = "OK" => Chosen /\ srvRole = roles[selectedroleid]
    /\ m.type = "SRoleRelogin" => loginroleid # 0

Asked == \A i \in 1..Len(c2s) : AskedRight(c2s[i])
Told  == \A i \in 1..Len(s2c) : ToldRight(s2c[i])

Wires == Silent /\ OneAtATime /\ Asked /\ Told
Flow  == Leaving /\ Playing

Agreed == Wires /\ Flow

LEMMA InitAgreed == Init => Agreed
<1> SUFFICES ASSUME Init PROVE Agreed
  OBVIOUS
<1>1. Wires
  BY DEF Init, Wires, Silent, OneAtATime, Asked, Told
<1>2. Flow
  BY DEF Init, Flow, Leaving, Playing
<1> QED
  BY <1>1, <1>2 DEF Agreed

(* Nothing is under way any more.                                          *)
LEMMA EmptiedWires ==
  ASSUME c2s' = <<>>, s2c' = <<>>
  PROVE  Wires'
  BY DEF Wires, Silent, OneAtATime, Asked, Told

(* A step that the messages under way do not see.                          *)
LEMMA SameWires ==
  ASSUME Wires, UNCHANGED <<c2s, s2c, link, roles, selectedroleid, loginroleid, srvRole>>
  PROVE  Wires'
<1>1. \A m : AskedRight(m) => AskedRight(m)'
  BY DEF AskedRight, Chosen
<1>2. \A m : ToldRight(m) => ToldRight(m)'
  BY DEF ToldRight, Chosen
<1> QED
  BY <1>1, <1>2 DEF Wires, Silent, OneAtATime, Asked, Told

(* A step that neither selects a role nor reconnects one that logged out.  *)
LEMMA SameFlow ==
  ASSUME Flow, UNCHANGED <<roles, selectedroleid, loginroleid, loading>>,
         srvRole' \in {0, srvRole},
         loading # "none" => ~AutoReconnect' /\ link' \in {"closed", "closing"}
  PROVE  Flow'
<1>1. Leaving'
  BY DEF Flow, Leaving
<1>2. Playing'
  BY DEF Flow, Playing, Chosen
<1> QED
  BY <1>1, <1>2 DEF Flow

(* A step that neither the messages nor the roles see.                     *)
LEMMA SameAgreed ==
  ASSUME Agreed, UNCHANGED <<link, AutoReconnect, roles, selectedroleid, loginroleid, loading,
                             c2s, s2c, srvRole>>
  PROVE  Agreed'
<1>1. Wires'
  BY SameWires DEF Agreed
<1>2. Flow'
  BY SameFlow DEF Agreed, Flow, Leaving
<1> QED
  BY <1>1, <1>2 DEF Agreed

(* Leaving a map, or the login flow for its first dialog.                  *)
LEMMA RoleLogoutAgreed ==
  ASSUME Agreed, NEW t \in LogoutType, role_logout(t), srvRole' \in {0, srvRole}
  PROVE  Agreed'
<1>1. /\ c2s' = <<>> /\ s2c' = <<>> /\ ~AutoReconnect'
      /\ link' \in {"closed", "closing"} /\ selectedroleid' = selectedroleid
      /\ \/ UNCHANGED <<roles, loginroleid, loading>>
         \/ loginroleid' = 0
  BY DEF role_logout, close, Close
<1>2. Wires'
  BY <1>1, EmptiedWires
<1>3. CASE UNCHANGED <<roles, loginroleid, loading>>
  <2>1. Flow'
    BY <1>1, <1>3, SameFlow DEF Agreed
  <2> QED
    BY <1>2, <2>1 DEF Agreed
<1>4. CASE loginroleid' = 0
  BY <1>1, <1>2, <1>4 DEF Agreed, Flow, Leaving, Playing
<1> QED
  BY <1>1, <1>3, <1>4

LEMMA OneMessage ==
  ASSUME NEW S, NEW s \in Seq(S), NEW T, NEW r \in Seq(T), Len(s) + Len(r) <= 1, s # <<>>
  PROVE  /\ Len(s) = 1 /\ Head(s) = s[1] /\ s[1] \in S /\ Tail(s) = <<>>
         /\ r = <<>>
<1>1. Len(s) \in Nat /\ Len(s) # 0 /\ Len(r) \in Nat
  BY EmptySeq, LenProperties
<1>2. Len(s) = 1 /\ Len(r) = 0
  <2> DEFINE a == Len(s)
             b == Len(r)
  <2>1. a \in Nat /\ a # 0 /\ b \in Nat /\ a + b <= 1
    BY <1>1
  <2> HIDE DEF a, b
  <2>2. a = 1 /\ b = 0
    BY <2>1
  <2> QED
    BY <2>2 DEF a, b
<1>3. r = <<>>
  BY <1>2, EmptySeq
<1>4. Head(s) = s[1] /\ s[1] \in S
  BY <1>2
<1>5. Tail(s) \in Seq(S) /\ Len(Tail(s)) = 0
  BY <1>2
<1>6. Tail(s) = <<>>
  BY <1>5, EmptySeq
<1> QED
  BY <1>2, <1>3, <1>4, <1>6

LEMMA OnlyReply ==
  ASSUME TypeOK, Wires, s2c # <<>>
  PROVE  /\ c2s = <<>> /\ Tail(s2c) = <<>> /\ link = "open"
         /\ Head(s2c) \in Replies /\ ToldRight(Head(s2c))
<1>1. s2c \in Seq(Replies) /\ c2s \in Seq(Requests)
  BY DEF TypeOK
<1>2. Len(s2c) + Len(c2s) <= 1 /\ Len(c2s) + Len(s2c) <= 1
  BY <1>1 DEF Wires, OneAtATime
<1>3. /\ Len(s2c) = 1 /\ Head(s2c) = s2c[1] /\ s2c[1] \in Replies /\ Tail(s2c) = <<>>
      /\ c2s = <<>>
  BY <1>1, <1>2, OneMessage
<1> QED
  BY <1>3 DEF Wires, Told, Silent

LEMMA OnlyRequest ==
  ASSUME TypeOK, Wires, c2s # <<>>
  PROVE  /\ s2c = <<>> /\ Tail(c2s) = <<>> /\ link = "open"
         /\ Head(c2s) \in Requests /\ AskedRight(Head(c2s))
<1>1. s2c \in Seq(Replies) /\ c2s \in Seq(Requests)
  BY DEF TypeOK
<1>2. Len(s2c) + Len(c2s) <= 1 /\ Len(c2s) + Len(s2c) <= 1
  BY <1>1 DEF Wires, OneAtATime
<1>3. /\ Len(c2s) = 1 /\ Head(c2s) = c2s[1] /\ c2s[1] \in Requests /\ Tail(c2s) = <<>>
      /\ s2c = <<>>
  BY <1>1, <1>2, OneMessage
<1> QED
  BY <1>3 DEF Wires, Asked, Silent

(* The only request that is sent, if it is, is right.                      *)
LEMMA SendOne ==
  ASSUME c2s = <<>>, s2c' = <<>>, link' = link, NEW m, Send(m), AskedRight(m)'
  PROVE  Wires'
<1>1. CASE c2s' = <<>>
  BY <1>1, EmptiedWires
<1>2. CASE link = "open" /\ c2s' = <<m>>
  <2>1. Len(c2s') = 1 /\ Len(s2c') = 0 /\ c2s'[1] = m
    BY <1>2
  <2>2. Asked' /\ Told' /\ OneAtATime' /\ Silent'
    BY <1>2, <2>1 DEF Asked, Told, OneAtATime, Silent
  <2> QED
    BY <2>2 DEF Wires
<1> QED
  BY <1>1, <1>2 DEF Send

LEMMA SocketConnectedAgreed == ASSUME Agreed, SocketConnected PROVE Agreed'
<1>1. /\ s2c' = <<[type |-> "OnlineAnnounce"]>> /\ c2s' = <<>> /\ link' = "open"
      /\ UNCHANGED <<roles, selectedroleid, loginroleid, srvRole, loading>>
  BY DEF SocketConnected, roleVars, sceneVars, serverVars
<1>2. Len(s2c') = 1 /\ Len(c2s') = 0 /\ s2c'[1].type = "OnlineAnnounce"
  BY <1>1
<1>3. ToldRight(s2c[1])'
  BY <1>2 DEF ToldRight
<1>4. Wires'
  BY <1>1, <1>2, <1>3 DEF Wires, Silent, OneAtATime, Asked, Told
<1>5. loading = "none"
  BY DEF Agreed, Flow, Leaving, SocketConnected
<1>6. Flow'
  BY <1>1, <1>5, SameFlow DEF Agreed
<1> QED
  BY <1>4, <1>6 DEF Agreed

(* A role that logged out has AutoReconnect off, and an abort leaves it so.*)
LEMMA SocketAbortedAgreed == ASSUME Agreed, SocketAborted PROVE Agreed'
<1>1. /\ c2s' = <<>> /\ s2c' = <<>> /\ link' = "closed"
      /\ UNCHANGED <<roles, selectedroleid, loginroleid, srvRole, loading>>
  BY DEF SocketAborted, roleVars, sceneVars, serverVars
<1>2. loading # "none" => ~AutoReconnect'
  BY DEF Agreed, Flow, Leaving, SocketAborted, on_abort
<1>3. Flow'
  BY <1>1, <1>2, SameFlow DEF Agreed
<1> QED
  BY <1>1, <1>3, EmptiedWires DEF Agreed

LEMMA SocketRetriesAgreed == ASSUME Agreed, SocketRetries PROVE Agreed'
<1> USE DEF SocketRetries, roleVars, sceneVars, serverVars
<1>1. c2s' = <<>> /\ s2c' = <<>>
  BY DEF Agreed, Wires, Silent
<1>2. loading = "none"
  BY DEF Agreed, Flow, Leaving
<1>3. Flow'
  BY <1>2, SameFlow DEF Agreed
<1> QED
  BY <1>1, <1>3, EmptiedWires DEF Agreed

LEMMA SocketGoesSilentAgreed == ASSUME Agreed, SocketGoesSilent PROVE Agreed'
<1> USE DEF SocketGoesSilent, roleVars, sceneVars, serverVars
<1>1. c2s' = <<>> /\ s2c' = <<>>
  OBVIOUS
<1>2. loading = "none"
  BY DEF Agreed, Flow, Leaving
<1>3. Flow'
  BY <1>2, SameFlow DEF Agreed
<1> QED
  BY <1>1, <1>3, EmptiedWires DEF Agreed

LEMMA ServerForgetsAgreed == ASSUME Agreed, ServerForgets PROVE Agreed'
<1> USE DEF ServerForgets, netVars, roleVars, sceneVars
<1>1. c2s' = <<>> /\ s2c' = <<>>
  BY DEF Agreed, Wires, Silent
<1>2. loading # "none" => ~AutoReconnect' /\ link' \in {"closed", "closing"}
  BY DEF Agreed, Flow, Leaving
<1>3. Flow'
  BY <1>2, SameFlow DEF Agreed
<1> QED
  BY <1>1, <1>3, EmptiedWires DEF Agreed

(* The server answers rightly a request that is right.                     *)
LEMMA ServerAnswersAgreed == ASSUME Calm, IInv, Agreed, ServerAnswers PROVE Agreed'
<1> USE DEF ServerAnswers, netVars, roleVars, sceneVars
<1> DEFINE req == Head(c2s)
<1>1. /\ s2c = <<>> /\ c2s' = <<>> /\ link = "open"
      /\ req \in Requests /\ AskedRight(req)
  BY OnlyRequest DEF IInv, Agreed
<1>2. Answer(req) /\ UNCHANGED <<link, AutoReconnect, roles, selectedroleid, loginroleid, loading>>
  OBVIOUS
<1>3. loading = "none"
  BY <1>1 DEF Agreed, Flow, Leaving
<1> HIDE DEF req
<1>4. ASSUME NEW m, s2c' = Append(s2c, m), ToldRight(m)'
      PROVE  Wires'
  <2>1. s2c' = <<m>> /\ Len(s2c') = 1 /\ s2c'[1] = m /\ Len(c2s') = 0
    <3>1. Append(<<>>, m) = <<m>>
      OBVIOUS
    <3>2. s2c' = <<m>>
      BY <1>1, <1>4, <3>1
    <3> QED
      BY <1>1, <3>2
  <2> QED
    BY <1>1, <1>2, <1>4, <2>1 DEF Wires, Silent, OneAtATime, Asked, Told
<1>5. ASSUME srvRole' = srvRole PROVE Flow'
  BY <1>2, <1>3, <1>5, SameFlow DEF Agreed
<1>6. CASE req.type = "CGetRoleList"
  <2>1. PICK r \in [1..account -> 1..account] :
           s2c' = Append(s2c, [type |-> "SGetRoleList", roles |-> r])
    BY <1>2, <1>6 DEF Answer
  <2>2. srvRole' = srvRole /\ loginroleid' = 0
    BY <1>1, <1>2, <1>6 DEF Answer, serverVars, AskedRight
  <2>3. ToldRight([type |-> "SGetRoleList", roles |-> r])'
    BY <2>2 DEF ToldRight
  <2> QED
    BY <1>4, <1>5, <2>1, <2>2, <2>3 DEF Agreed
<1>7. CASE req.type = "CCreateRole"
  <2>1. PICK e, i : s2c' = Append(s2c, [type |-> "SCreateRole", err |-> e, roleid |-> i])
    BY <1>2, <1>7 DEF Answer
  <2>2. srvRole' = srvRole /\ loginroleid' = 0
    BY <1>1, <1>2, <1>7 DEF Answer, serverVars, AskedRight
  <2>3. ToldRight([type |-> "SCreateRole", err |-> e, roleid |-> i])'
    BY <2>2 DEF ToldRight
  <2> QED
    BY <1>4, <1>5, <2>1, <2>2, <2>3 DEF Agreed
<1>8. CASE req.type = "CRoleLogin"
  <2>1. PICK err \in {"OK", "BUSY"} :
           /\ s2c' = Append(s2c, [type |-> "SRoleLogin", err |-> err])
           /\ srvRole' = IF err = "OK" THEN req.roleid ELSE srvRole
    BY <1>2, <1>8 DEF Answer, Calm
  <2>2. /\ Chosen /\ roles[selectedroleid] = req.roleid /\ loginroleid \in {0, req.roleid}
    BY <1>1, <1>8 DEF AskedRight
  <2>3. ToldRight([type |-> "SRoleLogin", err |-> err])'
    BY <1>2, <2>1, <2>2 DEF ToldRight, Chosen
  <2>4. Wires'
    BY <1>4, <2>1, <2>3
  <2>5. Leaving'
    BY <1>2, <1>3 DEF Leaving
  <2>6. Playing'
    BY <1>2, <2>1, <2>2 DEF Agreed, Flow, Playing, Chosen
  <2> QED
    BY <2>4, <2>5, <2>6 DEF Agreed, Flow
<1>9. CASE req.type = "CRoleRelogin"
  <2>1. PICK e : s2c' = Append(s2c, [type |-> "SRoleRelogin", err |-> e])
    BY <1>2, <1>9 DEF Answer
  <2>2. srvRole' = srvRole /\ loginroleid' # 0
    BY <1>1, <1>2, <1>9 DEF Answer, serverVars, AskedRight
  <2>3. ToldRight([type |-> "SRoleRelogin", err |-> e])'
    BY <2>2 DEF ToldRight
  <2> QED
    BY <1>4, <1>5, <2>1, <2>2, <2>3 DEF Agreed
<1> QED
  BY <1>1, <1>6, <1>7, <1>8, <1>9 DEF Requests

LEMMA onmsg_OnlineAnnounceAgreed == ASSUME IInv, Agreed, onmsg_OnlineAnnounce PROVE Agreed'
<1> USE DEF onmsg_OnlineAnnounce, Receive, netVars, roleVars, sceneVars, serverVars
<1>1. c2s = <<>> /\ s2c' = <<>> /\ link = "open" /\ link' = link
  BY OnlyReply DEF IInv, Agreed
<1>2. UNCHANGED <<AutoReconnect, roles, selectedroleid, loginroleid, srvRole, loading>>
  OBVIOUS
<1>3. Flow'
  BY <1>1, <1>2, SameFlow DEF Agreed, Flow, Leaving
<1>4. CASE loginroleid = 0
  <2>1. Send([type |-> "CGetRoleList"])
    BY <1>4
  <2>2. AskedRight([type |-> "CGetRoleList"])'
    BY <1>2, <1>4 DEF AskedRight
  <2>3. Wires'
    BY <1>1, <2>1, <2>2, SendOne
  <2> QED
    BY <1>3, <2>3 DEF Agreed
<1>5. CASE loginroleid # 0
  <2>1. Send([type |-> "CRoleRelogin", roleid |-> loginroleid])
    BY <1>5
  <2>2. ASSUME NEW r, r = loginroleid
        PROVE  AskedRight([type |-> "CRoleRelogin", roleid |-> r])'
    BY <1>2, <1>5, <2>2 DEF AskedRight
  <2>3. PICK r : r = loginroleid
    OBVIOUS
  <2>4. Wires'
    BY <1>1, <2>1, <2>2, <2>3, SendOne
  <2> QED
    BY <1>3, <2>4 DEF Agreed
<1> QED
  BY <1>4, <1>5

LEMMA onmsg_SGetRoleListAgreed == ASSUME IInv, Agreed, onmsg_SGetRoleList PROVE Agreed'
<1> USE DEF onmsg_SGetRoleList, Receive, sceneVars
<1>1. /\ s2c' = <<>> /\ c2s' = <<>> /\ link = "open" /\ loginroleid = 0
  BY OnlyReply DEF IInv, Agreed, ToldRight
<1>2. loading' = "none" /\ loginroleid' = 0
  BY <1>1 DEF Agreed, Flow, Leaving
<1> QED
  BY <1>1, <1>2, EmptiedWires DEF Agreed, Flow, Leaving, Playing

(* The role that was created is the one selected, and the one asked for.   *)
LEMMA onmsg_SCreateRoleAgreed == ASSUME IInv, Agreed, onmsg_SCreateRole PROVE Agreed'
<1> USE DEF onmsg_SCreateRole, Receive, netVars, sceneVars
<1>1. /\ c2s = <<>> /\ s2c' = <<>> /\ link = "open" /\ link' = link /\ loginroleid = 0
      /\ Head(s2c) \in Replies /\ Head(s2c).type = "SCreateRole"
  BY OnlyReply DEF IInv, Agreed, ToldRight
<1>2. loading' = "none" /\ loginroleid' = 0
  BY <1>1 DEF Agreed, Flow, Leaving
<1>3. Flow'
  BY <1>2 DEF Flow, Leaving, Playing
<1>4. CASE Head(s2c).err = "OK"
  <2>1. /\ roles' = Append(roles, Head(s2c).roleid) /\ Head(s2c).roleid \in RoleIds
        /\ roles \in Seq(RoleIds)
        /\ role_login(roles', Len(roles'))
    BY <1>1, <1>4, ReplyFields DEF IInv, TypeOK
  <2>2. PICK n \in Nat : /\ n = Len(roles') /\ n \in DOMAIN roles'
                         /\ selectedroleid' = n
    BY <2>1 DEF role_login
  <2>3. Send([type |-> "CRoleLogin", roleid |-> roles'[n]])
    BY <2>1, <2>2 DEF role_login
  <2>4. ASSUME NEW r, r = roles'[n]
        PROVE  AskedRight([type |-> "CRoleLogin", roleid |-> r])'
    <3>1. Chosen' /\ (roles[selectedroleid])' = r
      BY <2>2, <2>4 DEF Chosen
    <3> QED
      BY <1>2, <3>1 DEF AskedRight
  <2>5. PICK r : r = roles'[n]
    OBVIOUS
  <2>6. Wires'
    BY <1>1, <2>3, <2>4, <2>5, SendOne
  <2> QED
    BY <1>3, <2>6 DEF Agreed
<1>5. CASE Head(s2c).err # "OK"
  BY <1>1, <1>3, <1>5, EmptiedWires DEF Agreed
<1> QED
  BY <1>4, <1>5

LEMMA onmsg_SRoleLoginAgreed == ASSUME IInv, Agreed, onmsg_SRoleLogin PROVE Agreed'
<1> USE DEF onmsg_SRoleLogin, Receive, sceneVars, serverVars
<1>1. /\ c2s' = <<>> /\ s2c' = <<>> /\ link = "open" /\ link' = link
      /\ ToldRight(Head(s2c)) /\ Head(s2c).type = "SRoleLogin"
  BY OnlyReply DEF IInv, Agreed
<1>2. /\ UNCHANGED <<AutoReconnect, roles, selectedroleid, srvRole, loading>>
      /\ Head(s2c).err # "OTHER"
      /\ Head(s2c).err = "OK" => Chosen /\ srvRole = roles[selectedroleid]
  BY <1>1 DEF ToldRight
<1>3. loading = "none"
  BY <1>1 DEF Agreed, Flow, Leaving
<1>4. Wires'
  BY <1>1, EmptiedWires
<1>5. CASE Head(s2c).err = "OK"
  <2>1. loginroleid' = LoginRole /\ Chosen
    BY <1>2, <1>5 DEF Chosen
  <2>2. Leaving'
    BY <1>2, <1>3 DEF Leaving
  <2>3. Playing'
    BY <1>2, <1>5, <2>1 DEF Playing, Chosen, LoginRole
  <2> QED
    BY <1>4, <2>2, <2>3 DEF Agreed, Flow
<1>6. CASE Head(s2c).err # "OK"
  <2>1. UNCHANGED loginroleid
    BY <1>2, <1>6
  <2>2. Flow'
    BY <1>2, <1>3, <2>1, SameFlow DEF Agreed
  <2> QED
    BY <1>4, <2>2 DEF Agreed
<1> QED
  BY <1>5, <1>6

LEMMA onmsg_SRoleReLoginAgreed == ASSUME IInv, Agreed, onmsg_SRoleReLogin PROVE Agreed'
<1> USE DEF onmsg_SRoleReLogin, Receive, roleVars, sceneVars, serverVars
<1>1. /\ c2s = <<>> /\ s2c' = <<>> /\ link = "open" /\ link' = link /\ loginroleid # 0
  BY OnlyReply DEF IInv, Agreed, ToldRight
<1>2. UNCHANGED <<AutoReconnect, roles, selectedroleid, loginroleid, srvRole, loading>>
  OBVIOUS
<1>3. loading = "none" /\ Chosen /\ roles[selectedroleid] = loginroleid
  BY <1>1 DEF Agreed, Flow, Leaving, Playing
<1>4. Flow'
  BY <1>2, <1>3, SameFlow DEF Agreed
<1>5. CASE Head(s2c).err = "OK"
  BY <1>1, <1>4, <1>5, EmptiedWires DEF Agreed
<1>6. CASE Head(s2c).err # "OK"
  <2>1. Send([type |-> "CRoleLogin", roleid |-> loginroleid])
    BY <1>6
  <2>2. ASSUME NEW r, r = loginroleid
        PROVE  AskedRight([type |-> "CRoleLogin", roleid |-> r])'
    BY <1>2, <1>3, <2>2 DEF AskedRight, Chosen
  <2>3. PICK r : r = loginroleid
    OBVIOUS
  <2>4. Wires'
    BY <1>1, <2>1, <2>2, <2>3, SendOne
  <2> QED
    BY <1>4, <2>4 DEF Agreed
<1> QED
  BY <1>5, <1>6

(* The steps of the watchdogs, of the pings and of the dialogs.            *)
LEMMA WatchdogAgreed ==
  ASSUME Agreed, onmsg_SPing \/ onmsg_KeepAlive \/ PingExpires \/ KeepaliveExpires
  PROVE  Agreed'
  BY SameAgreed DEF onmsg_SPing, onmsg_KeepAlive, PingExpires, KeepaliveExpires, netVars, roleVars,
     sceneVars, serverVars

LEMMA UIManagerAgreed == ASSUME Agreed, UIManager PROVE Agreed'
  BY SameAgreed DEF UIManager, DialogLoaded, DestroyAllDlgs, netVars, roleVars, sceneVars, serverVars

LEMMA onmsg_ErrorInfoAgreed == ASSUME Agreed, onmsg_ErrorInfo PROVE Agreed'
<1> USE DEF onmsg_ErrorInfo, close, Close, roleVars, sceneVars, serverVars
<1>1. /\ c2s' = <<>> /\ s2c' = <<>> /\ link = "open"
      /\ UNCHANGED <<roles, selectedroleid, loginroleid, srvRole, loading>>
  OBVIOUS
<1>2. Flow'
  BY <1>1, SameFlow DEF Agreed, Flow, Leaving
<1> QED
  BY <1>1, <1>2, EmptiedWires DEF Agreed

LEMMA onmsg_SKickRoleAgreed == ASSUME Agreed, onmsg_SKickRole PROVE Agreed'
<1>1. /\ role_logout("to_login") /\ "to_login" \in LogoutType /\ srvRole' \in {0, srvRole}
  BY DEF onmsg_SKickRole, LogoutType
<1> QED
  BY <1>1, RoleLogoutAgreed

LEMMA onmsg_SEnterAgreed == ASSUME Agreed, onmsg_SEnter PROVE Agreed'
  BY SameAgreed DEF onmsg_SEnter, netVars, roleVars, serverVars

(* The update reconnects no role that logged out: its socket is closed,    *)
(* and no watchdog survives that.                                          *)
LEMMA second_updateAgreed == ASSUME Calm, IInv, Agreed, second_update PROVE Agreed'
<1> USE DEF second_update, reconnect, Close, roleVars, sceneVars, serverVars
<1>1. /\ c2s' = <<>> /\ s2c' = <<>>
      /\ UNCHANGED <<roles, selectedroleid, loginroleid, srvRole, loading>>
  OBVIOUS
<1>2. link # "closing"
  BY DEF Calm
<1>3. link # "closed"
  BY DEF IInv, Safe, NoWatchdogWhenClosed, PingDue, KeepaliveDue
<1>4. loading = "none"
  BY <1>2, <1>3 DEF Agreed, Flow, Leaving
<1>5. Flow'
  BY <1>1, <1>4, SameFlow DEF Agreed
<1> QED
  BY <1>1, <1>5, EmptiedWires DEF Agreed

LEMMA LogoutAgreed == ASSUME Agreed, Logout PROVE Agreed'
<1>1. CASE LoggedInPlatform
  <2>1. /\ role_logout("to_login") /\ "to_login" \in LogoutType /\ srvRole' = srvRole
    BY <1>1 DEF Logout, serverVars, LogoutType
  <2> QED
    BY <2>1, RoleLogoutAgreed
<1>2. CASE ~LoggedInPlatform
  BY <1>2, SameAgreed DEF Logout, roleVars, sceneVars, serverVars
<1> QED
  BY <1>1, <1>2

LEMMA OnLoginSceneLoadedAgreed == ASSUME Agreed, OnLoginSceneLoaded PROVE Agreed'
<1> USE DEF OnLoginSceneLoaded, connect
<1>1. loading' = "none" /\ loginroleid' = 0
  OBVIOUS
<1>2. c2s' = <<>> /\ s2c' = <<>>
  <2>1. c2s = <<>> /\ s2c = <<>>
    BY DEF Agreed, Wires, Silent, Flow, Leaving
  <2> QED
    BY <2>1
<1> QED
  BY <1>1, <1>2, EmptiedWires DEF Agreed, Flow, Leaving, Playing

LEMMA PlayerLogsInAgreed == ASSUME Calm, Agreed, PlayerLogsIn PROVE Agreed'
<1> USE DEF PlayerLogsIn, connect, roleVars, sceneVars, serverVars
<1>1. UNCHANGED <<roles, selectedroleid, loginroleid, srvRole, loading>>
  OBVIOUS
<1>2. loading = "none"
  BY DEF MayAct, Calm
<1>3. Flow'
  BY <1>1, <1>2, SameFlow DEF Agreed
<1>4. CASE LoggedInPlatform
  BY <1>3, <1>4, EmptiedWires DEF Agreed
<1>5. CASE ~LoggedInPlatform
  <2>1. UNCHANGED <<link, c2s, s2c>>
    BY <1>5
  <2>2. Wires'
    BY <1>1, <2>1, SameWires DEF Agreed
  <2> QED
    BY <1>3, <2>2 DEF Agreed
<1> QED
  BY <1>4, <1>5

LEMMA PlayerPlaysAgreed == ASSUME Calm, Agreed, PlayerPlays PROVE Agreed'
<1> USE DEF PlayerPlays, netVars, sceneVars, serverVars
<1>1. PICK i \in DOMAIN roles : role_login(roles, i)
  OBVIOUS
<1>2. c2s = <<>> /\ s2c' = <<>> /\ loginroleid = 0 /\ loading = "none"
  BY DEF MayChoose, MayAct, Calm
<1>3. /\ UNCHANGED <<link, roles, loginroleid, loading>>
      /\ selectedroleid' = i /\ Send([type |-> "CRoleLogin", roleid |-> roles[i]])
  BY <1>1 DEF role_login
<1>4. ASSUME NEW r, r = roles[i]
      PROVE  AskedRight([type |-> "CRoleLogin", roleid |-> r])'
  <2>1. Chosen' /\ (roles[selectedroleid])' = r
    BY <1>3, <1>4 DEF Chosen
  <2> QED
    BY <1>2, <1>3, <2>1 DEF AskedRight
<1>5. PICK r : r = roles[i]
  OBVIOUS
<1>6. Wires'
  BY <1>2, <1>3, <1>4, <1>5, SendOne
<1>7. Flow'
  BY <1>2, <1>3 DEF Flow, Leaving, Playing
<1> QED
  BY <1>6, <1>7 DEF Agreed

LEMMA PlayerCreatesRoleAgreed == ASSUME Calm, Agreed, PlayerCreatesRole PROVE Agreed'
<1> USE DEF PlayerCreatesRole, netVars, roleVars, sceneVars, serverVars
<1>1. c2s = <<>> /\ s2c' = <<>> /\ loginroleid = 0 /\ loading = "none"
  BY DEF MayChoose, MayAct, Calm
<1>2. UNCHANGED <<link, loginroleid, loading>>
  OBVIOUS
<1>3. AskedRight([type |-> "CCreateRole"])'
  BY <1>1, <1>2 DEF AskedRight
<1>4. Wires'
  BY <1>1, <1>2, <1>3, SendOne
<1>5. Flow'
  BY <1>1, <1>2 DEF Flow, Leaving, Playing
<1> QED
  BY <1>4, <1>5 DEF Agreed

LEMMA PlayerReturnsAgreed == ASSUME Agreed, PlayerReturns PROVE Agreed'
  BY SameAgreed DEF PlayerReturns, PlayerTurns, netVars, roleVars, sceneVars, serverVars

LEMMA PlayerClosesAlertAgreed == ASSUME Agreed, PlayerClosesAlert PROVE Agreed'
<1>1. srvRole' = srvRole /\ "to_login" \in LogoutType
  BY DEF PlayerClosesAlert, serverVars, LogoutType
<1>2. CASE role_logout("to_login")
  BY <1>1, <1>2, RoleLogoutAgreed
<1>3. CASE UNCHANGED <<netVars, roleVars, sceneVars, c2s, s2c>>
  BY <1>1, <1>3, SameAgreed DEF netVars, roleVars, sceneVars
<1> QED
  BY <1>2, <1>3 DEF PlayerClosesAlert, AskSdkLogout

LEMMA PlayerLogsOutAgreed == ASSUME Agreed, PlayerLogsOut PROVE Agreed'
<1>1. srvRole' = srvRole /\ "to_choose_player" \in LogoutType
  BY DEF PlayerLogsOut, serverVars, LogoutType
<1>2. CASE role_logout("to_choose_player")
  BY <1>1, <1>2, RoleLogoutAgreed
<1>3. CASE AskSdkLogout
  BY <1>1, <1>3, SameAgreed DEF AskSdkLogout, netVars, roleVars, sceneVars
<1> QED
  BY <1>2, <1>3 DEF PlayerLogsOut

LEMMA NextAgreed == ASSUME Calm, IInv, Agreed, [Next]_vars PROVE Agreed'
<1>1. CASE Socket
  BY <1>1, SocketConnectedAgreed, SocketAbortedAgreed, SocketRetriesAgreed,
     SocketGoesSilentAgreed DEF Socket
<1>2. CASE Server
  BY <1>2, ServerAnswersAgreed, ServerForgetsAgreed DEF Server
<1>3. CASE Message
  BY <1>3, onmsg_OnlineAnnounceAgreed, onmsg_SGetRoleListAgreed, onmsg_SCreateRoleAgreed,
     onmsg_SRoleLoginAgreed, onmsg_SRoleReLoginAgreed, WatchdogAgreed,
     onmsg_ErrorInfoAgreed, onmsg_SKickRoleAgreed, onmsg_SEnterAgreed DEF Message
<1>4. CASE Timers
  BY <1>4, WatchdogAgreed, second_updateAgreed DEF Timers
<1>5. CASE Logout \/ OnLoginSceneLoaded \/ UIManager
  BY <1>5, LogoutAgreed, OnLoginSceneLoadedAgreed, UIManagerAgreed
<1>6. CASE Player
  BY <1>6, PlayerLogsInAgreed, PlayerPlaysAgreed, PlayerCreatesRoleAgreed, PlayerReturnsAgreed,
     PlayerClosesAlertAgreed, PlayerLogsOutAgreed DEF Player
<1>7. CASE UNCHANGED vars
  BY <1>7, SameAgreed DEF vars, netVars, roleVars, sceneVars, serverVars
<1> QED
  BY <1>1, <1>2, <1>3, <1>4, <1>5, <1>6, <1>7 DEF Next

(* What the messages, the roles and the server agree on in a calm session. *)
THEOREM AgreedInductive == ASSUME Calm PROVE Spec => [](IInv /\ Agreed)
<1>1. (IInv /\ Agreed) /\ [Next]_vars => (IInv /\ Agreed)'
  BY NextIInv, NextAgreed
<1> QED
  BY <1>1, InitIInv, InitAgreed, PTL DEF Spec

(* The role that plays is the one the player selected, in the list the     *)
(* client holds.                                                           *)
THEOREM RoleIsSelected == Calm => (Spec => []RoleAgrees)
<1>1. Agreed => RoleAgrees
  BY DEF Agreed, Flow, Playing, Chosen, RoleAgrees
<1> SUFFICES ASSUME Calm PROVE Spec => []RoleAgrees
  OBVIOUS
<1> QED
  BY <1>1, AgreedInductive, PTL

(* The server holds the role that plays, or none.                          *)
THEOREM ServerHoldsRole == Calm => (Spec => []RoleMatchesServer)
<1>1. Agreed => RoleMatchesServer
  BY DEF Agreed, Flow, Playing, RoleMatchesServer
<1> SUFFICES ASSUME Calm PROVE Spec => []RoleMatchesServer
  OBVIOUS
<1> QED
  BY <1>1, AgreedInductive, PTL

(* Nothing reconnects a role on its way to the login dialog.               *)
THEOREM LogoutIsFinal == Calm => (Spec => []LoggedOutStaysOff)
<1>1. Agreed => LoggedOutStaysOff
  BY DEF Agreed, Flow, Leaving, LoggedOutStaysOff
<1> SUFFICES ASSUME Calm PROVE Spec => []LoggedOutStaysOff
  OBVIOUS
<1> QED
  BY <1>1, AgreedInductive, PTL
=============================================================================
