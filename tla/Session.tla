------------------------------ MODULE Session ------------------------------
(***************************************************************************)
(* The session of the game client: network.lua (the connection and its     *)
(* automatic reconnection), auth.lua (the account is online, KeepAlive)    *)
(* and login.lua (the role list, the role that plays, SPing, logout),      *)
(* composed with what they talk to and do not control: the socket          *)
(* (Aio.Session), the platform SDK, the scene manager and the game server. *)
(*                                                                         *)
(* Handlers run to completion on one thread, so each one is an action; the *)
(* socket, the server, the timers and the player interleave with them.     *)
(* A timer is "armed" until it is past its time ("due"): the model orders  *)
(* no two timers.  A dialog is loaded asynchronously (uimanager.lua): it   *)
(* comes up when its load ends, whatever was asked for in the meantime.    *)
(***************************************************************************)
EXTENDS Integers, Sequences, FiniteSets

CONSTANTS MaxRoles,          \* roles of the account (the dialog lists four)
          MaxReconnectCount, \* LocalString.MaxReconnectCount, network.lua:55
          QuietReconnects,   \* failures before the player is told: 4, network.lua:53
          MaxWire,           \* bound on the messages under way in a direction
          LoginErrors,       \* the errors SRoleLogin may carry: "BUSY", "OTHER"
          Patient,           \* the player does nothing while a request is under way
          Late,              \* bound: the dialogs whose load may end late, or fail
          PromptClose        \* a Close is reported before the next second_update

ASSUME SessionAssumption == /\ MaxRoles \in Nat \ {0}
                            /\ MaxReconnectCount \in Nat
                            /\ QuietReconnects \in Nat
                            /\ MaxWire \in Nat
                            /\ LoginErrors \subseteq {"BUSY", "OTHER"}
                            /\ Patient \in BOOLEAN
                            /\ PromptClose \in BOOLEAN

VARIABLES
  link,              \* the socket: "closed", "connecting", "open", "halfopen"
                     \* (open, but nothing arrives any more), "closing"
  AutoReconnect,     \* Aio.Session.AutoReconnect
  reconnectCount,    \* network.lua
  isOnline,          \* auth.lua
  recvKeepaliveExpireTime,  \* auth.lua: "armed" or "due"
  LoggedInPlatform,  \* auth.lua
  sdkLogout,         \* the SDK owes the client a logoutSuccess event
  roles,             \* login.lua: the role list, a sequence of role ids
  selectedroleid,    \* login.lua: an index of roles, or 0
  loginroleid,       \* login.lua: the role that plays, or 0
  recvSPingExpireTime,      \* login.lua: "nil", "armed" or "due"
  shown,             \* the dialogs of the login flow that are shown
  opening,           \* the dialogs that are being loaded (loaded = LOAD_ING)
  scene,             \* SceneMgr.SceneName: "login" or "map"
  loading,           \* the login scene is being loaded: "none" or a LogoutType
  c2s, s2c,          \* messages under way
  account,           \* server: the roles of the account, a number
  srvRole            \* server: the role it holds for this account, or 0

netVars    == <<link, AutoReconnect, reconnectCount>>
authVars   == <<isOnline, recvKeepaliveExpireTime, LoggedInPlatform, sdkLogout>>
roleVars   == <<roles, selectedroleid, loginroleid>>
dialogVars == <<shown, opening>>
sceneVars  == <<scene, loading>>
serverVars == <<account, srvRole>>
vars == <<netVars, authVars, roleVars, recvSPingExpireTime, dialogVars, sceneVars,
          c2s, s2c, serverVars>>

RoleIds    == 1..MaxRoles
LogoutType == {"to_login", "to_choose_player"}
Alerts     == {"maxreconnect", "kickedbyanother", "createfailed"}
Dialogs    == {"dlglogin", "dlgchooseplayer", "dlgcreatplayer", "disconnection"} \cup Alerts

Requests == [type : {"CGetRoleList", "CCreateRole"}]
            \cup [type : {"CRoleLogin", "CRoleRelogin"}, roleid : RoleIds \cup {0}]
Replies  == [type : {"OnlineAnnounce"}]
            \cup [type : {"SGetRoleList"}, roles : Seq(RoleIds)]
            \cup [type : {"SCreateRole"}, err : {"OK", "ERR"}, roleid : RoleIds]
            \cup [type : {"SRoleLogin"}, err : {"OK", "BUSY", "OTHER"}]
            \cup [type : {"SRoleRelogin"}, err : {"OK", "OTHER"}]

Up == link \in {"open", "halfopen"}

Init == /\ link = "closed"
        /\ AutoReconnect = FALSE
        /\ reconnectCount = 0
        /\ isOnline = FALSE
        /\ recvKeepaliveExpireTime = "armed"
        /\ LoggedInPlatform = FALSE
        /\ sdkLogout = FALSE
        /\ roles = <<>>
        /\ selectedroleid = 0
        /\ loginroleid = 0
        /\ recvSPingExpireTime = "nil"
        /\ shown = {"dlglogin"}
        /\ opening = {}
        /\ scene = "login"
        /\ loading = "none"
        /\ c2s = <<>>
        /\ s2c = <<>>
        /\ account \in 0..MaxRoles
        /\ srvRole = 0
-----------------------------------------------------------------------------
(* Pieces the handlers are made of.                                        *)

(* network.send: only an open socket carries the message to the server,    *)
(* and message.send drops one that follows another of its name too soon    *)
(* (msgmanager.CheckMsg; the model keeps no times, so any send may be too  *)
(* soon).                                                                  *)
Send(m) == \/ c2s' = c2s
           \/ link = "open" /\ c2s' = Append(c2s, m)

(* session:Close().  Its on_disconnect callback comes later; what was      *)
(* under way is lost.                                                      *)
Close(auto) ==
    /\ AutoReconnect' = auto
    /\ link' = IF link = "closed" THEN "closed" ELSE "closing"
    /\ c2s' = <<>>
    /\ s2c' = <<>>

reconnect == Close(TRUE)
closeRetrying(autoReconnect) == Close(TRUE)   \* mutant: login.lua:193, commented out
close(autoReconnect) == Close(autoReconnect)

(* uimanager.show, called by a handler that leaves the dialogs sh shown.   *)
(* A dialog that was loaded before comes up at once, unless its own show   *)
(* fails; one that was not, or was destroyed since (unload_expire_view,    *)
(* DestroyWhenHide), comes up when its load ends: see DialogLoaded.  It    *)
(* does nothing for a dialog that is shown or being loaded already.        *)
Show(d, sh) ==
    \/ d \notin opening /\ shown' = sh \cup {d} /\ UNCHANGED opening
    \/ d \in Late /\ shown' = sh /\ UNCHANGED opening
    \/ d \in Late \ sh /\ shown' = sh /\ opening' = opening \cup {d}

(* uimanager.ShowSingleAlertDlg.  The alerts are contents of one dialog,   *)
(* so the first one stays, with its callback.  It may be one of a screen   *)
(* that is not modelled, and in the map a cutscene may have locked the     *)
(* manager: then nothing is shown.                                         *)
AlertUp(sh) == Alerts \cap (sh \cup opening) # {}
MayBeCovered(sh) == scene = "map" \/ {"dlgchooseplayer", "dlgcreatplayer"} \cap sh # {}
ShowSingleAlertDlg(a, sh) ==
    \/ (AlertUp(sh) \/ MayBeCovered(sh)) /\ shown' = sh /\ UNCHANGED opening
    \/ ~AlertUp(sh) /\ Show(a, sh)

(* The listeners of "network_abort": auth.on_network_abort, login.on_abort.*)
NetworkAbortAuthOnly == isOnline' = FALSE /\ UNCHANGED recvSPingExpireTime \* mutant
NetworkAbort == /\ isOnline' = FALSE
                /\ recvSPingExpireTime' = "nil"

(* Every count past the limit behaves alike: the model stops there.        *)
CountLimit == QuietReconnects + MaxReconnectCount + 1
NextCount  == IF reconnectCount = CountLimit THEN CountLimit ELSE reconnectCount + 1

GiveUpLate(n) == n - QuietReconnects > MaxReconnectCount + 1   \* mutant
GiveUp(n) == n - QuietReconnects > MaxReconnectCount

on_abort ==
    /\ IF AutoReconnect
       THEN /\ reconnectCount' = NextCount
            /\ AutoReconnect' = ~GiveUp(NextCount)
            /\ IF GiveUp(NextCount)
               THEN ShowSingleAlertDlg("maxreconnect", shown \ {"disconnection"})
               ELSE IF NextCount > QuietReconnects
                    THEN Show("disconnection", shown)
                    ELSE UNCHANGED dialogVars
       ELSE UNCHANGED <<reconnectCount, AutoReconnect, dialogVars>>
    /\ NetworkAbort

(* network.connect.  A connection that is still there is dropped by the    *)
(* socket, which may or may not report it; AutoReconnect is FALSE by then. *)
connect(auto) ==
    /\ AutoReconnect' = auto
    /\ link' = "connecting"
    /\ c2s' = <<>>
    /\ s2c' = <<>>

DroppedReported == link # "closed" /\ NetworkAbort

(* login.role_logout.  The CRoleLogout it sends may or may not reach the   *)
(* server before the socket closes: see ServerForgets.                     *)
role_logout(logouttype) ==
    /\ close(FALSE)
    /\ IF scene = "login"
       THEN /\ Show("dlglogin", {})
            /\ UNCHANGED <<roles, loginroleid, loading>>
       ELSE /\ shown' = {}
            /\ UNCHANGED opening
            /\ roles' = <<>>
            /\ loginroleid' = 0
            /\ loading' = logouttype
    /\ UNCHANGED <<scene, selectedroleid>>
-----------------------------------------------------------------------------
(* The socket.                                                             *)

(* on_connect, and login.on_connected.                                     *)
ArmPingNever == UNCHANGED recvSPingExpireTime   \* mutant
ArmPing == recvSPingExpireTime' =
               IF loginroleid > 0 THEN "armed" ELSE recvSPingExpireTime
on_connected == ArmPing

SocketConnected ==
    /\ link = "connecting"
    /\ link' = "open"
    /\ s2c' = <<[type |-> "OnlineAnnounce"]>>
    /\ c2s' = <<>>
    /\ on_connected
    /\ UNCHANGED <<AutoReconnect, reconnectCount, authVars, roleVars, dialogVars,
                   sceneVars, serverVars>>

(* The attempt fails, the peer closes, or a Close completes.               *)
SocketAborted ==
    /\ link # "closed"
    /\ link' = "closed"
    /\ c2s' = <<>>
    /\ s2c' = <<>>
    /\ on_abort
    /\ UNCHANGED <<recvKeepaliveExpireTime, LoggedInPlatform, sdkLogout, roleVars,
                   sceneVars, serverVars>>

SocketRetries ==
    /\ link = "closed"
    /\ AutoReconnect
    /\ link' = "connecting"
    /\ UNCHANGED <<AutoReconnect, reconnectCount, authVars, roleVars,
                   recvSPingExpireTime, dialogVars, sceneVars, c2s, s2c, serverVars>>

(* The peer vanishes without a FIN.                                        *)
SocketGoesSilent ==
    /\ link = "open"
    /\ link' = "halfopen"
    /\ c2s' = <<>>
    /\ s2c' = <<>>
    /\ UNCHANGED <<AutoReconnect, reconnectCount, authVars, roleVars,
                   recvSPingExpireTime, dialogVars, sceneVars, serverVars>>
-----------------------------------------------------------------------------
(* The server.                                                             *)

Answer(req) ==
    CASE req.type = "CGetRoleList" ->
           /\ \E s \in [1..account -> 1..account] :
                 /\ \A i, j \in 1..account : s[i] = s[j] => i = j
                 /\ s2c' = Append(s2c, [type |-> "SGetRoleList", roles |-> s])
           /\ UNCHANGED serverVars
      [] req.type = "CCreateRole" ->
           IF account < MaxRoles
           THEN /\ account' = account + 1
                /\ s2c' = Append(s2c, [type |-> "SCreateRole", err |-> "OK",
                                       roleid |-> account + 1])
                /\ UNCHANGED srvRole
           ELSE /\ s2c' = Append(s2c, [type |-> "SCreateRole", err |-> "ERR",
                                       roleid |-> MaxRoles])
                /\ UNCHANGED serverVars
      [] req.type = "CRoleLogin" ->
           \E err \in LoginErrors \cup (IF req.roleid = 0 THEN {} ELSE {"OK"}) :
              /\ s2c' = Append(s2c, [type |-> "SRoleLogin", err |-> err])
              /\ srvRole' = IF err = "OK" THEN req.roleid ELSE srvRole
              /\ UNCHANGED account
      [] req.type = "CRoleRelogin" ->
           /\ s2c' = Append(s2c, [type |-> "SRoleRelogin",
                                  err |-> IF srvRole = req.roleid THEN "OK" ELSE "OTHER"])
           /\ UNCHANGED serverVars

ServerAnswers ==
    /\ link = "open"
    /\ c2s # <<>>
    /\ Len(s2c) < MaxWire
    /\ Answer(Head(c2s))
    /\ c2s' = Tail(c2s)
    /\ UNCHANGED <<netVars, authVars, roleVars, recvSPingExpireTime, dialogVars, sceneVars>>

(* A role that is not connected leaves the server: it logged out, or it    *)
(* stayed away too long.                                                   *)
ServerForgets ==
    /\ link # "open"
    /\ srvRole # 0
    /\ srvRole' = 0
    /\ UNCHANGED <<netVars, authVars, roleVars, recvSPingExpireTime, dialogVars, sceneVars,
                   c2s, s2c, account>>
-----------------------------------------------------------------------------
(* The messages of the server.                                             *)

Receive(type) == /\ link = "open"
                 /\ s2c # <<>>
                 /\ Head(s2c).type = type
                 /\ s2c' = Tail(s2c)

(* auth and login listen to it, in an order the event bus does not fix.    *)
onmsg_OnlineAnnounce ==
    /\ Receive("OnlineAnnounce")
    /\ isOnline' = TRUE
    /\ recvKeepaliveExpireTime' = "armed"
    /\ Send(IF loginroleid = 0
            THEN [type |-> "CGetRoleList"]
            ELSE [type |-> "CRoleRelogin", roleid |-> loginroleid])
    /\ UNCHANGED <<netVars, LoggedInPlatform, sdkLogout, roleVars, recvSPingExpireTime,
                   dialogVars, sceneVars, serverVars>>

onmsg_SGetRoleList ==
    /\ Receive("SGetRoleList")
    /\ roles' = Head(s2c).roles
    /\ AutoReconnect' = TRUE
    /\ LET d == IF loginroleid = 0 THEN shown \ {"disconnection"} ELSE shown
       IN  IF scene = "login" /\ "dlgcreatplayer" \in d
           THEN shown' = d /\ UNCHANGED opening
           ELSE Show(IF roles' # <<>> THEN "dlgchooseplayer" ELSE "dlgcreatplayer",
                     d \ {"dlglogin"})
    /\ reconnectCount' = IF loginroleid = 0 THEN 0 ELSE reconnectCount
    /\ UNCHANGED <<link, authVars, selectedroleid, loginroleid, recvSPingExpireTime,
                   sceneVars, c2s, serverVars>>

(* role_login: the index is kept, the id is sent.                          *)
role_loginByIndex(rs, index) ==               \* mutant: the index is sent
    /\ selectedroleid' = index
    /\ Send([type |-> "CRoleLogin", roleid |-> index])
role_login(rs, index) ==
    /\ selectedroleid' = index
    /\ Send([type |-> "CRoleLogin", roleid |-> rs[index]])

onmsg_SCreateRole ==
    /\ Receive("SCreateRole")
    /\ IF Head(s2c).err = "OK"
       THEN /\ roles' = Append(roles, Head(s2c).roleid)
            /\ shown' = shown \ {"dlgcreatplayer"}
            /\ UNCHANGED opening
            /\ role_login(roles', Len(roles'))
       ELSE /\ ShowSingleAlertDlg("createfailed", shown)
            /\ UNCHANGED <<roles, selectedroleid, c2s>>
    /\ UNCHANGED <<netVars, authVars, loginroleid, recvSPingExpireTime, sceneVars,
                   serverVars>>

(* SRoleLogin and SRoleRelogin end a disconnection in the same way: hide   *)
(* takes the dialog away if it is shown, and does nothing while it is      *)
(* being loaded.                                                           *)
RecoveredButShown(d) == d      \* mutant: the dialog is not hidden
Recovered(d) == d \ {"disconnection"}

SessionEstablished ==
    /\ recvSPingExpireTime' = "armed"
    /\ reconnectCount' = 0

LoginRoleFirst == roles[1]     \* mutant
LoginRole == roles[selectedroleid]

(* login_sucess fails on a nil roleinfo, and the busy branch on the global *)
(* uimnager, which does not exist: the handler stops there.                *)
onmsg_SRoleLogin ==
    /\ Receive("SRoleLogin")
    /\ \/ /\ Head(s2c).err = "OK"
          /\ selectedroleid \in DOMAIN roles
          /\ loginroleid' = LoginRole
          /\ SessionEstablished
          /\ shown' = Recovered(shown) \ {"dlgchooseplayer"}
       \/ /\ Head(s2c).err = "OK" /\ selectedroleid \notin DOMAIN roles
          /\ UNCHANGED <<loginroleid, recvSPingExpireTime, reconnectCount, shown>>
       \/ /\ Head(s2c).err = "BUSY"
          /\ UNCHANGED <<loginroleid, recvSPingExpireTime, reconnectCount, shown>>
       \/ /\ Head(s2c).err = "OTHER"
          /\ loginroleid' = 0
          /\ UNCHANGED <<recvSPingExpireTime, reconnectCount, shown>>
    /\ UNCHANGED <<link, AutoReconnect, authVars, roles, selectedroleid, opening, sceneVars,
                   c2s, serverVars>>

onmsg_SRoleReLogin ==
    /\ Receive("SRoleRelogin")
    /\ IF Head(s2c).err = "OK"
       THEN /\ SessionEstablished
            /\ shown' = Recovered(shown)
            /\ UNCHANGED c2s
       ELSE /\ Send([type |-> "CRoleLogin", roleid |-> loginroleid])
            /\ UNCHANGED <<recvSPingExpireTime, reconnectCount, shown>>
    /\ UNCHANGED <<link, AutoReconnect, authVars, roleVars, opening, sceneVars, serverVars>>

(* SPing and KeepAlive, which the server sends while it serves the client. *)
onmsg_SPing ==
    /\ link = "open"
    /\ loginroleid # 0 /\ srvRole = loginroleid
    /\ recvSPingExpireTime' = "armed"
    /\ UNCHANGED <<netVars, authVars, roleVars, dialogVars, sceneVars, c2s, s2c, serverVars>>

onmsg_KeepAlive ==
    /\ link = "open"
    /\ isOnline
    /\ recvKeepaliveExpireTime' = "armed"
    /\ UNCHANGED <<netVars, isOnline, LoggedInPlatform, sdkLogout, roleVars,
                   recvSPingExpireTime, dialogVars, sceneVars, c2s, s2c, serverVars>>

onmsg_ErrorInfo ==
    /\ link = "open"
    /\ \/ /\ AutoReconnect' = FALSE                  \* ERR_KICK_BY_ANOTHER_USER
          /\ ShowSingleAlertDlg("kickedbyanother", shown)
          /\ link' = "halfopen"                     \* its last message
          /\ c2s' = <<>>
          /\ s2c' = <<>>
          /\ UNCHANGED isOnline
       \/ /\ isOnline' = FALSE                       \* any other error
          /\ close(AutoReconnect)
          /\ UNCHANGED dialogVars
    /\ UNCHANGED <<reconnectCount, recvKeepaliveExpireTime, LoggedInPlatform, sdkLogout,
                   roleVars, recvSPingExpireTime, sceneVars, serverVars>>

onmsg_SKickRole ==
    /\ link = "open"
    /\ srvRole # 0
    /\ srvRole' = 0
    /\ role_logout("to_login")
    /\ UNCHANGED <<reconnectCount, authVars, recvSPingExpireTime, account>>

(* SEnter: scenemanager.load destroys the dialogs and loads the map.       *)
onmsg_SEnter ==
    /\ link = "open"
    /\ srvRole # 0 /\ loginroleid # 0
    /\ scene = "login" /\ loading = "none"
    /\ scene' = "map"
    /\ shown' = {}
    /\ UNCHANGED <<netVars, authVars, roleVars, recvSPingExpireTime, opening, loading,
                   c2s, s2c, serverVars>>
-----------------------------------------------------------------------------
(* Timers and the once-a-second update.                                    *)

PingExpires ==
    /\ recvSPingExpireTime = "armed"
    /\ recvSPingExpireTime' = "due"
    /\ UNCHANGED <<netVars, authVars, roleVars, dialogVars, sceneVars, c2s, s2c, serverVars>>

KeepaliveExpires ==
    /\ isOnline
    /\ recvKeepaliveExpireTime = "armed"
    /\ recvKeepaliveExpireTime' = "due"
    /\ UNCHANGED <<netVars, isOnline, LoggedInPlatform, sdkLogout, roleVars,
                   recvSPingExpireTime, dialogVars, sceneVars, c2s, s2c, serverVars>>

(* second_update of auth and of login: whoever is due reconnects.          *)
PingDueNever == FALSE          \* mutant: the update does not look at the ping
PingDue == recvSPingExpireTime = "due" /\ loginroleid > 0
KeepaliveDue == isOnline /\ recvKeepaliveExpireTime = "due"

second_update ==
    /\ PingDue \/ KeepaliveDue
    /\ PromptClose => link # "closing"
    /\ reconnect
    /\ UNCHANGED <<reconnectCount, authVars, roleVars, recvSPingExpireTime, dialogVars,
                   sceneVars, serverVars>>
-----------------------------------------------------------------------------
(* The platform SDK and the login scene.                                   *)

(* auth.Logout, the listener of logoutSuccess.                             *)
Logout ==
    /\ sdkLogout
    /\ sdkLogout' = FALSE
    /\ IF LoggedInPlatform
       THEN LoggedInPlatform' = FALSE /\ role_logout("to_login")
       ELSE UNCHANGED <<LoggedInPlatform, AutoReconnect, link, roleVars, dialogVars,
                        sceneVars, c2s, s2c>>
    /\ UNCHANGED <<reconnectCount, isOnline, recvKeepaliveExpireTime,
                   recvSPingExpireTime, serverVars>>

(* The login scene is there (a failed load is asked for again).            *)
OnLoginSceneLoaded ==
    /\ loading # "none"
    /\ loading' = "none"
    /\ scene' = "login"
    /\ selectedroleid' = 0
    /\ loginroleid' = 0
    /\ isOnline' = FALSE
    /\ IF loading = "to_login"
       THEN /\ Show("dlglogin", {})
            /\ UNCHANGED <<link, AutoReconnect, recvSPingExpireTime, c2s, s2c>>
       ELSE /\ shown' = {}
            /\ UNCHANGED opening
            /\ connect(TRUE)
            /\ \/ link # "closed" /\ recvSPingExpireTime' = "nil"
               \/ UNCHANGED recvSPingExpireTime
    /\ UNCHANGED <<reconnectCount, recvKeepaliveExpireTime, LoggedInPlatform, sdkLogout,
                   roles, serverVars>>
-----------------------------------------------------------------------------
(* The UI manager.                                                         *)

(* The callback of a load: the dialog comes up, unless it cannot be made   *)
(* or its init or show fails.  A load that finds no asset never ends.      *)
DialogLoaded ==
    \E d \in opening :
       /\ opening' = opening \ {d}
       /\ shown' = shown \cup {d} \/ UNCHANGED shown
       /\ UNCHANGED <<netVars, authVars, roleVars, recvSPingExpireTime, sceneVars,
                      c2s, s2c, serverVars>>

(* A cutscene or a new map hides what is shown, not what is being loaded.  *)
DestroyAllDlgs ==
    /\ scene = "map"
    /\ shown # {} /\ shown' = {}
    /\ UNCHANGED <<netVars, authVars, roleVars, recvSPingExpireTime, opening, sceneVars,
                   c2s, s2c, serverVars>>
-----------------------------------------------------------------------------
(* The player.                                                             *)

MayAct == /\ Patient => c2s = <<>> /\ s2c = <<>> /\ loading = "none"
          /\ Len(c2s) < MaxWire

(* A dialog of the login flow whose load ends late may come up over the    *)
(* game; a patient player leaves it alone.                                 *)
MayChoose == MayAct /\ (Patient => loginroleid = 0)

(* dlglogin: log in on the platform first, then connect.                   *)
PlayerLogsIn ==
    /\ MayAct
    /\ "dlglogin" \in shown
    /\ IF LoggedInPlatform
       THEN /\ connect(FALSE)
            /\ DroppedReported \/ UNCHANGED <<isOnline, recvSPingExpireTime>>
            /\ UNCHANGED LoggedInPlatform
       ELSE /\ LoggedInPlatform' = TRUE
            /\ UNCHANGED <<AutoReconnect, link, isOnline, recvSPingExpireTime, c2s, s2c>>
    /\ UNCHANGED <<reconnectCount, recvKeepaliveExpireTime, sdkLogout, roleVars, dialogVars,
                   sceneVars, serverVars>>

(* dlgchooseplayer: play.                                                  *)
PlayerPlays ==
    /\ MayChoose
    /\ "dlgchooseplayer" \in shown
    /\ \E i \in DOMAIN roles : role_login(roles, i)
    /\ UNCHANGED <<netVars, authVars, roles, loginroleid, recvSPingExpireTime, dialogVars,
                   sceneVars, s2c, serverVars>>

(* dlgcreatplayer: create.                                                 *)
PlayerCreatesRole ==
    /\ MayChoose
    /\ "dlgcreatplayer" \in shown
    /\ Send([type |-> "CCreateRole"])
    /\ UNCHANGED <<netVars, authVars, roleVars, recvSPingExpireTime, dialogVars, sceneVars,
                   s2c, serverVars>>

(* From one dialog of the login flow to another.                           *)
PlayerTurns(from, to) ==
    /\ MayAct
    /\ from \in shown
    /\ Show(to, shown \ {from})
    /\ UNCHANGED <<netVars, authVars, roleVars, recvSPingExpireTime, sceneVars, c2s, s2c,
                   serverVars>>

PlayerReturns ==
    \/ PlayerTurns("dlgchooseplayer", "dlglogin")
    \/ PlayerTurns("dlgchooseplayer", "dlgcreatplayer")
    \/ roles # <<>> /\ PlayerTurns("dlgcreatplayer", "dlgchooseplayer")
    \/ roles = <<>> /\ PlayerTurns("dlgcreatplayer", "dlglogin")

(* The single-button alert: its button hides it and calls back, its cross  *)
(* only hides it.                                                          *)
AskSdkLogout == /\ sdkLogout' = TRUE
                /\ UNCHANGED <<isOnline, recvKeepaliveExpireTime, LoggedInPlatform,
                               netVars, roleVars, sceneVars, c2s, s2c>>

PlayerClosesAlert ==
    /\ \/ /\ "maxreconnect" \in shown
          /\ role_logout("to_login")
          /\ UNCHANGED <<reconnectCount, authVars>>
       \/ /\ "kickedbyanother" \in shown
          /\ AskSdkLogout
          /\ shown' = shown \ Alerts
          /\ UNCHANGED opening
       \/ /\ Alerts \cap shown # {}
          /\ shown' = shown \ Alerts
          /\ UNCHANGED <<opening, netVars, authVars, roleVars, sceneVars, c2s, s2c>>
    /\ UNCHANGED <<recvSPingExpireTime, serverVars>>

(* The settings dialog of the game: login.logout.                          *)
PlayerLogsOut ==
    /\ scene = "map" /\ loading = "none"
    /\ \/ /\ AskSdkLogout
          /\ UNCHANGED dialogVars
       \/ /\ role_logout("to_choose_player")
          /\ UNCHANGED <<reconnectCount, authVars>>
    /\ UNCHANGED <<recvSPingExpireTime, serverVars>>
-----------------------------------------------------------------------------
Socket  == SocketConnected \/ SocketAborted \/ SocketRetries \/ SocketGoesSilent
Server  == ServerAnswers \/ ServerForgets
Message == \/ onmsg_OnlineAnnounce \/ onmsg_SGetRoleList \/ onmsg_SCreateRole
           \/ onmsg_SRoleLogin \/ onmsg_SRoleReLogin \/ onmsg_SPing
           \/ onmsg_KeepAlive \/ onmsg_ErrorInfo \/ onmsg_SKickRole \/ onmsg_SEnter
Timers  == PingExpires \/ KeepaliveExpires \/ second_update
Player  == \/ PlayerLogsIn \/ PlayerPlays \/ PlayerCreatesRole \/ PlayerReturns
           \/ PlayerClosesAlert \/ PlayerLogsOut
UIManager == DialogLoaded \/ DestroyAllDlgs

Next == \/ Socket \/ Server \/ Message \/ Timers \/ Logout \/ OnLoginSceneLoaded
        \/ Player \/ UIManager

Spec == Init /\ [][Next]_vars

(* The socket makes progress with what it was asked, time passes and the   *)
(* engine calls second_update.                                             *)
SocketResolves == link \in {"connecting", "closing"} /\ (SocketConnected \/ SocketAborted)

Fairness == /\ WF_vars(SocketResolves)
            /\ WF_vars(SocketRetries)
            /\ WF_vars(PingExpires)
            /\ WF_vars(second_update)

FairSpec == Spec /\ Fairness
-----------------------------------------------------------------------------
(* Every variable keeps its type. *)
TypeOK ==
    /\ link \in {"closed", "connecting", "open", "halfopen", "closing"}
    /\ AutoReconnect \in BOOLEAN
    /\ reconnectCount \in 0..CountLimit
    /\ isOnline \in BOOLEAN
    /\ recvKeepaliveExpireTime \in {"armed", "due"}
    /\ LoggedInPlatform \in BOOLEAN
    /\ sdkLogout \in BOOLEAN
    /\ roles \in Seq(RoleIds)
    /\ selectedroleid \in Nat
    /\ loginroleid \in RoleIds \cup {0}
    /\ recvSPingExpireTime \in {"nil", "armed", "due"}
    /\ shown \subseteq Dialogs
    /\ opening \subseteq Dialogs
    /\ scene \in {"login", "map"}
    /\ loading \in LogoutType \cup {"none"}
    /\ c2s \in Seq(Requests)
    /\ s2c \in Seq(Replies)
    /\ account \in 0..MaxRoles
    /\ srvRole \in RoleIds \cup {0}

(* A connection that a role plays on is watched: if its server falls       *)
(* silent, recvSPingExpireTime will come due.                              *)
WatchdogArmed == Up /\ loginroleid # 0 => recvSPingExpireTime # "nil"

(* Neither watchdog survives the connection it watches, so second_update   *)
(* never calls reconnect() on a closed socket.                             *)
NoWatchdogWhenClosed == link = "closed" => ~isOnline /\ recvSPingExpireTime = "nil"

(* The socket retries by itself only within the limit, whatever turned     *)
(* AutoReconnect on.                                                       *)
RetryWithinLimit ==
    link = "closed" /\ AutoReconnect =>
        reconnectCount <= QuietReconnects + MaxReconnectCount

(* The disconnection dialog is stale when it is up without attempts beyond *)
(* the quiet ones being counted: after a recovery, a logout that was       *)
(* answered, or giving up.  The code leaves a stale dialog only when it    *)
(* was still being loaded, which hide does not see; no handler that ends   *)
(* or restarts the count leaves a dialog that is up behind.                *)
DialogStale == /\ "disconnection" \in shown
               /\ reconnectCount \notin
                     (QuietReconnects + 1)..(QuietReconnects + MaxReconnectCount)

DisconnectionDlgHonest ==
    [][DialogStale' => DialogStale \/ "disconnection" \in opening]_vars

(* The role that plays is the one the player selected in the list the      *)
(* client holds (a patient player: see the README).                        *)
RoleAgrees ==
    loginroleid # 0 => /\ selectedroleid \in DOMAIN roles
                       /\ roles[selectedroleid] = loginroleid

(* A client on its way to the login dialog is off the network and stays    *)
(* off: nothing reconnects it behind the player's back (given PromptClose).*)
LoggedOutStaysOff ==
    loading = "to_login" => ~AutoReconnect /\ link \in {"closed", "closing"}

(* Client and server agree on the role that plays.                         *)
RoleMatchesServer ==
    link = "open" /\ loginroleid # 0 /\ srvRole # 0 => srvRole = loginroleid

(* A half-open connection that a role plays on is given up.                *)
DeadLinkDropped ==
    (link = "halfopen" /\ loginroleid # 0) ~> (link # "halfopen")

(* Retrying ends: with a connection, or by giving up.                      *)
RetryTerminates ==
    (link = "closed" /\ AutoReconnect) ~> (link = "open" \/ ~AutoReconnect)
=============================================================================
