----------------------------- MODULE AutoAIProofs -----------------------------
(***************************************************************************)
(* Proofs about AutoAI, for every value of its constants.                  *)
(***************************************************************************)
EXTENDS AutoAI, TLAPS

Timers == Periodic \cup {"idle", "joy"}

(* What the safety invariants need of each other: that the timer of the    *)
(* idle state and the state agree whoever moves the machine, and that the  *)
(* periodic timers are touched by Start and the simple mode only.          *)
IInv == TypeOK /\ IdleWatched /\ OffMeansOff

(* Attacking leaves the skill in one of its states.                        *)
LEMMA AttackType ==
    ASSUME NEW skl \in SkillStates, TypeOK
    PROVE  AttackNow(skl) \subseteq SkillStates
BY DEF AttackNow, SkillStates, TypeOK

(* The machine moves between its states.                                   *)
LEMMA NewStateType ==
    ASSUME NEW event, TypeOK
    PROVE  NewState(event) \in States
BY DEF NewState, Kept, TypeOK, States

(* OnEvent keeps the idle timer and the state together, touches no         *)
(* periodic timer, and keeps every type.                                   *)
LEMMA OnEventKeeps ==
    ASSUME TypeOK, NEW event, NEW on,
           NEW tms, tms \subseteq Timers,
           cur = "idle" <=> "idle" \in tms,
           NEW prb \in 0..MaxProbes,
           NEW skl \in SkillStates,
           NEW hm \in BOOLEAN,
           OnEvent(event, on, tms, prb, skl, hm)
    PROVE  /\ cur' \in States
           /\ timers' \subseteq Timers
           /\ cur' = "idle" <=> "idle" \in timers'
           /\ timers' \cap Periodic = tms \cap Periodic
           /\ probes' \in 0..MaxProbes
           /\ skill' \in SkillStates
           /\ home' \in BOOLEAN
<1>1. CASE Deaf(on)
  BY <1>1 DEF OnEvent, TypeOK
<1>2. CASE ~Deaf(on)
  <2> DEFINE new == NewState(event)
  <2>1. /\ cur' = new
        /\ timers' = JoyArmed(new, event, Enter(new, Exit(new, tms)))
        /\ probes' = Probed(new, prb)
        /\ skill' \in Attacks(new, event, skl)
        /\ home' = GoesHome(new, event, hm)
    BY <1>2 DEF OnEvent
  <2>2. new \in States
    BY NewStateType
  <2> HIDE DEF new
  <2>3. /\ timers' \subseteq Timers
        /\ cur' = "idle" <=> "idle" \in timers'
    BY <2>1, <2>2 DEF JoyArmed, Enter, Exit, Timers, Periodic, TypeOK
  <2>4. timers' \cap Periodic = tms \cap Periodic
    BY <2>1 DEF JoyArmed, Enter, Exit, Periodic
  <2>5. probes' \in 0..MaxProbes
    BY <2>1, AutoAIAssumption DEF Probed
  <2>6. skill' \in SkillStates
    BY <2>1, AttackType DEF Attacks
  <2>7. home' \in BOOLEAN
    BY <2>1 DEF GoesHome
  <2> QED BY <2>1, <2>2, <2>3, <2>4, <2>5, <2>6, <2>7
<1> QED BY <1>1, <1>2

LEMMA InitIInv == Init => IInv
<1> SUFFICES ASSUME Init PROVE IInv
  OBVIOUS
<1>1. probes \in 0..MaxProbes
  BY AutoAIAssumption DEF Init
<1>2. cutscene \in BOOLEAN
  BY DEF Init
<1>3. cur \in States /\ skill \in SkillStates /\ timers = {}
  BY DEF Init, States, SkillStates
<1>4. /\ running \in BOOLEAN /\ simple \in BOOLEAN /\ home \in BOOLEAN
      /\ far \in BOOLEAN /\ stick \in BOOLEAN
      /\ target \in BOOLEAN /\ able \in BOOLEAN
  BY DEF Init
<1>5. IdleWatched /\ OffMeansOff
  BY DEF Init, IdleWatched, OffMeansOff
<1> QED BY <1>1, <1>2, <1>3, <1>4, <1>5 DEF IInv, TypeOK

(* Every step keeps the invariant.                                         *)
LEMMA NextIInv == IInv /\ [Next]_vars => IInv'
<1> SUFFICES ASSUME IInv, [Next]_vars PROVE IInv'
  OBVIOUS
<1> USE DEF IInv
<1>0. /\ TypeOK
      /\ cur = "idle" <=> "idle" \in timers
      /\ timers \subseteq Timers
      /\ probes \in 0..MaxProbes /\ MaxProbes \in Nat \ {0}
      /\ skill \in SkillStates /\ home \in BOOLEAN /\ FALSE \in BOOLEAN
      /\ "None" \in SkillStates /\ "WaitForNextSkill" \in SkillStates
  BY AutoAIAssumption DEF TypeOK, IdleWatched, Timers, SkillStates
<1> DEFINE Kept7 == /\ cur' \in States
                    /\ timers' \subseteq Timers
                    /\ cur' = "idle" <=> "idle" \in timers'
                    /\ timers' \cap Periodic = timers \cap Periodic
                    /\ probes' \in 0..MaxProbes
                    /\ skill' \in SkillStates
                    /\ home' \in BOOLEAN
<1>s. ASSUME Kept7, running' = running, simple' = simple, UNCHANGED cutscene,
             far' \in BOOLEAN, stick' \in BOOLEAN, target' \in BOOLEAN, able' \in BOOLEAN
      PROVE  IInv'
  BY <1>s DEF TypeOK, IdleWatched, OffMeansOff, Timers
<1>1. CASE StartOn
  <2>1. timers \cup Periodic \subseteq Timers
        /\ (cur = "idle" <=> "idle" \in timers \cup Periodic)
    BY <1>0 DEF Timers, Periodic
  <2>2. OnEvent("start", TRUE, timers \cup Periodic, probes, skill, home)
    BY <1>1 DEF StartOn
  <2>3. /\ cur' \in States
        /\ timers' \subseteq Timers
        /\ cur' = "idle" <=> "idle" \in timers'
        /\ probes' \in 0..MaxProbes
        /\ skill' \in SkillStates
        /\ home' \in BOOLEAN
    BY <1>0, <2>1, <2>2, OnEventKeeps
  <2> QED BY <1>1, <2>3 DEF StartOn, TypeOK, IdleWatched, OffMeansOff, Timers
<1>2. CASE StopOff
  <2>1. timers \ Periodic \subseteq Timers
        /\ (cur = "idle" <=> "idle" \in timers \ Periodic)
    BY <1>0 DEF Timers, Periodic
  <2>2. OnEvent("stop", FALSE, timers \ Periodic, probes, skill, home)
    BY <1>2 DEF StopOff
  <2>3. /\ cur' \in States
        /\ timers' \subseteq Timers
        /\ cur' = "idle" <=> "idle" \in timers'
        /\ timers' \cap Periodic = (timers \ Periodic) \cap Periodic
        /\ probes' \in 0..MaxProbes
        /\ skill' \in SkillStates
        /\ home' \in BOOLEAN
    BY <1>0, <2>1, <2>2, OnEventKeeps
  <2> QED BY <1>2, <2>3 DEF StopOff, world, TypeOK, IdleWatched, OffMeansOff, Timers
<1>3. CASE IdleTimer
  <2>1. OnEvent("monster", running, timers, probes, skill, home)
    BY <1>3 DEF IdleTimer
  <2>2. Kept7
    BY <1>0, <2>1, OnEventKeeps
  <2> QED BY <1>3, <2>2, <1>s DEF IdleTimer, world, TypeOK
<1>4. CASE IdleProbe
  <2>1. probes - 1 \in 0..MaxProbes
    BY <1>0, <1>4 DEF IdleProbe
  <2>2. Kept7
    <3>1. CASE target
      <4>1. OnEvent("monster", running, timers, probes - 1, skill, home)
        BY <1>4, <3>1 DEF IdleProbe
      <4> QED BY <1>0, <2>1, <4>1, OnEventKeeps
    <3>2. CASE ~target
      BY <1>0, <1>4, <2>1, <3>2 DEF IdleProbe, TypeOK
    <3> QED BY <3>1, <3>2
  <2> QED BY <1>4, <2>2, <1>s DEF IdleProbe, world, TypeOK
<1>5. CASE JoyTimer
  <2>1. /\ timers \ {"joy"} \subseteq Timers
        /\ cur = "idle" <=> "idle" \in timers \ {"joy"}
        /\ (timers \ {"joy"}) \cap Periodic = timers \cap Periodic
    BY <1>0 DEF Timers, Periodic
  <2>2. OnEvent("joystop", running, timers \ {"joy"}, probes, skill, home)
    BY <1>5 DEF JoyTimer
  <2>3. Kept7
    BY <1>0, <2>1, <2>2, OnEventKeeps
  <2> QED BY <1>5, <2>3, <1>s DEF JoyTimer, world, TypeOK
<1>6. CASE ResetPosTimer
  <2>1. OnEvent("automove", running, timers, probes, skill, home)
    BY <1>6 DEF ResetPosTimer
  <2>2. Kept7
    BY <1>0, <2>1, OnEventKeeps
  <2> QED BY <1>6, <2>2, <1>s DEF ResetPosTimer, world, TypeOK
<1>7. CASE CastSkillTimer
  <2>1. skill' \in SkillStates
    BY <1>0, <1>7, AttackType DEF CastSkillTimer, Attacks
  <2> QED BY <1>0, <1>7, <2>1, <1>s DEF CastSkillTimer, ai, world, TypeOK
<1>8. CASE ToSimpleMode
  BY <1>0, <1>8 DEF ToSimpleMode, world, TypeOK, IdleWatched, OffMeansOff, Periodic
<1>9. CASE ToNormalMode
  BY <1>0, <1>9 DEF ToNormalMode, TouchHeeded, world, TypeOK, IdleWatched,
                    OffMeansOff, Periodic
<1>10. CASE OnJoyStickMove
  <2>1. WalkGivenUp(skill) \in SkillStates
    BY <1>0 DEF WalkGivenUp
  <2>2. OnEvent("joy", running, timers, probes, WalkGivenUp(skill), FALSE)
    BY <1>10 DEF OnJoyStickMove
  <2>3. Kept7
    BY <1>0, <2>1, <2>2, OnEventKeeps
  <2> QED BY <1>10, <2>3, <1>s DEF OnJoyStickMove, TypeOK
<1>11. CASE OnJoyStickStop
  <2>1. OnEvent("nojoy", running, timers, probes, skill, FALSE)
    BY <1>11 DEF OnJoyStickStop
  <2>2. Kept7
    BY <1>0, <2>1, OnEventKeeps
  <2> QED BY <1>11, <2>2, <1>s DEF OnJoyStickStop, TypeOK
<1>12. CASE NavigationEnds
  <2>1. OnEvent("backtopos", running, timers, probes, skill, FALSE)
    BY <1>12 DEF NavigationEnds
  <2>2. Kept7
    BY <1>0, <2>1, OnEventKeeps
  <2> QED BY <1>12, <2>2, <1>s DEF NavigationEnds, TypeOK
<1>13. CASE NavigationStops
  BY <1>0, <1>13, <1>s DEF NavigationStops, ai, world, TypeOK
<1>14. CASE UpdateWalkToTargetState
  <2>1. CASE OnEvent("nomonster", running, timers, probes, "None", home)
    <3>1. Kept7
      BY <1>0, <2>1, OnEventKeeps
    <3> QED BY <1>14, <3>1, <1>s DEF UpdateWalkToTargetState, world, TypeOK
  <2>2. CASE UNCHANGED ai /\ home' \in BOOLEAN /\ skill' \in SkillStates
    BY <1>0, <1>14, <2>2, <1>s DEF UpdateWalkToTargetState, ai, world, TypeOK
  <2> QED BY <1>0, <1>14, <2>1, <2>2 DEF UpdateWalkToTargetState, SkillStates
<1>15. CASE SkillExpires
  <2>1. CASE OnEvent("skillover", running, timers, probes, "None", home)
    <3>1. Kept7
      BY <1>0, <2>1, OnEventKeeps
    <3> QED BY <1>15, <3>1, <1>s DEF SkillExpires, world, TypeOK
  <2>2. CASE UNCHANGED <<ai, home>> /\ skill' = "None"
    BY <1>0, <1>15, <2>2, <1>s DEF SkillExpires, ai, world, TypeOK
  <2> QED BY <1>15, <2>1, <2>2 DEF SkillExpires
<1>16. CASE NotifyAttackComplete
  <2>1. PICK s \in {"WaitForNextSkill", "None"} :
           OnEvent("skillover", running, timers, probes, s, home)
    BY <1>16 DEF NotifyAttackComplete
  <2>2. s \in SkillStates
    BY <1>0
  <2>3. Kept7
    BY <1>0, <2>1, <2>2, OnEventKeeps
  <2> QED BY <1>16, <2>3, <1>s DEF NotifyAttackComplete, world, TypeOK
<1>17. CASE RemoveEffect
  <2>1. OnEvent("skillover", running, timers, probes, skill, home)
    BY <1>17 DEF RemoveEffect
  <2>2. Kept7
    BY <1>0, <2>1, OnEventKeeps
  <2> QED BY <1>17, <2>2, <1>s DEF RemoveEffect, world, TypeOK
<1>18. CASE OnButtonCastSkill
  <2>1. skill' \in SkillStates
    BY <1>0, <1>18 DEF OnButtonCastSkill, SkillStates
  <2> QED BY <1>0, <1>18, <2>1, <1>s DEF OnButtonCastSkill, ai, world, TypeOK
<1>19. CASE WorldChanges
  BY <1>0, <1>19
     DEF WorldChanges, ai, TypeOK, IdleWatched, OffMeansOff, Timers
<1>20. CASE UNCHANGED vars
  BY <1>20 DEF vars, ai, world, TypeOK, IdleWatched, OffMeansOff
<1> QED
  BY <1>1, <1>2, <1>3, <1>4, <1>5, <1>6, <1>7, <1>8, <1>9, <1>10, <1>11, <1>12,
     <1>13, <1>14, <1>15, <1>16, <1>17, <1>18, <1>19, <1>20 DEF Next

(* Spec keeps the types, the watch of the idle state, and off off.         *)
THEOREM AlwaysIInv == Spec => []IInv
BY InitIInv, NextIInv, PTL DEF Spec

(* Every variable keeps its type. *)
THEOREM TypeCorrect == Spec => []TypeOK
<1>1. IInv => TypeOK
  BY DEF IInv
<1> QED BY AlwaysIInv, <1>1, PTL

(* An idle machine always looks for monsters, however it became idle.      *)
THEOREM IdleAlwaysWatched == Spec => []IdleWatched
<1>1. IInv => IdleWatched
  BY DEF IInv
<1> QED BY AlwaysIInv, <1>1, PTL

(* With automatic fighting off no periodic timer runs.                     *)
THEOREM OffIsOff == Spec => []OffMeansOff
<1>1. IInv => OffMeansOff
  BY DEF IInv
<1> QED BY AlwaysIInv, <1>1, PTL

(* With automatic fighting off, or in a cutscene, the machine stays where  *)
(* it is: every handler that moves it asks OnEvent.                        *)
THEOREM FrozenAlways == Spec => FrozenWhenDeaf
<1> DEFINE Frozen == (~running /\ ~running') \/ (cutscene /\ cutscene') => cur' = cur
<1>1. [Next]_vars => Frozen
  <2> SUFFICES ASSUME [Next]_vars, Deaf(running), running' => running \/ cutscene
               PROVE  cur' = cur
    BY DEF Deaf
  <2>1. ASSUME NEW event, NEW on, NEW tms, NEW prb, NEW skl, NEW hm,
               Deaf(on), OnEvent(event, on, tms, prb, skl, hm)
        PROVE  cur' = cur
    BY <2>1 DEF OnEvent
  <2>2. CASE StartOn
    <3>1. Deaf(TRUE)
      BY <2>2 DEF StartOn, Deaf
    <3> QED BY <2>1, <2>2, <3>1 DEF StartOn
  <2>3. CASE StopOff
    <3>1. Deaf(FALSE)
      BY DEF Deaf
    <3> QED BY <2>1, <2>3, <3>1 DEF StopOff
  <2>4. CASE IdleTimer \/ IdleProbe \/ JoyTimer \/ ResetPosTimer
    BY <2>1, <2>4 DEF IdleTimer, IdleProbe, JoyTimer, ResetPosTimer
  <2>5. CASE OnJoyStickMove \/ OnJoyStickStop \/ NavigationEnds
    BY <2>1, <2>5 DEF OnJoyStickMove, OnJoyStickStop, NavigationEnds
  <2>6. CASE UpdateWalkToTargetState \/ SkillExpires
    BY <2>1, <2>6 DEF UpdateWalkToTargetState, SkillExpires, ai
  <2>7. CASE NotifyAttackComplete \/ RemoveEffect
    BY <2>1, <2>7 DEF NotifyAttackComplete, RemoveEffect
  <2>8. CASE CastSkillTimer \/ ToSimpleMode \/ ToNormalMode \/ NavigationStops
    BY <2>8 DEF CastSkillTimer, ToSimpleMode, ToNormalMode, NavigationStops, ai
  <2>9. CASE OnButtonCastSkill \/ WorldChanges \/ UNCHANGED vars
    BY <2>9 DEF OnButtonCastSkill, WorldChanges, vars, ai
  <2> QED BY <2>2, <2>3, <2>4, <2>5, <2>6, <2>7, <2>8, <2>9 DEF Next
<1>2. [Next]_vars => [Frozen]_vars
  BY <1>1
<1> QED BY <1>2, PTL DEF Spec, FrozenWhenDeaf

(* What JoyEnds needs of OnEvent: stk is the joystick after the handler.   *)
LEMMA OnEventJoy ==
    ASSUME NEW event, NEW on, NEW tms, NEW prb, NEW skl, NEW hm, NEW stk,
           ~cutscene,
           event = "joy" => stk,
           \/ event \in {"nojoy", "joystop", "start"}
           \/ cur = "joymove" /\ on /\ ~stk => "joy" \in tms,
           OnEvent(event, on, tms, prb, skl, hm)
    PROVE  cur' = "joymove" /\ on /\ ~stk => "joy" \in timers'
<1> SUFFICES ASSUME cur' = "joymove", on, ~stk PROVE "joy" \in timers'
  OBVIOUS
<1> DEFINE new == NewState(event)
<1>1. /\ cur' = new
      /\ timers' = JoyArmed(new, event, Enter(new, Exit(new, tms)))
  BY DEF OnEvent, Deaf
<1>2. event # "joy" /\ event # "joystop" /\ event # "start" /\ cur = "joymove"
  BY <1>1 DEF NewState, Kept
<1>3. CASE event = "nojoy"
  BY <1>1, <1>3 DEF JoyArmed
<1>4. CASE event # "nojoy"
  <2>1. "joy" \in tms
    BY <1>2, <1>4
  <2> HIDE DEF new
  <2> QED BY <1>1, <2>1 DEF JoyArmed, Enter, Exit
<1> QED BY <1>3, <1>4

(* Only a cutscene strands the machine in joymove.                         *)
THEOREM JoyAlwaysEnds == Spec => JoyEnds
<1> DEFINE Leads == JoyStuck' => JoyStuck \/ cutscene
<1>1. [Next]_vars => Leads
  <2> SUFFICES ASSUME [Next]_vars, ~JoyStuck, ~cutscene PROVE ~JoyStuck'
    OBVIOUS
  <2>0. cur = "joymove" /\ running /\ ~stick => "joy" \in timers
    BY DEF JoyStuck
  <2>1. ASSUME NEW event, NEW tms, NEW prb, NEW skl, NEW hm,
               OnEvent(event, running, tms, prb, skl, hm),
               running' = running,
               event = "joy" => stick',
               \/ event \in {"nojoy", "joystop"}
               \/ stick' = stick /\ ("joy" \in timers => "joy" \in tms)
               \/ event = "joy"
        PROVE  ~JoyStuck'
    <3>1. \/ event \in {"nojoy", "joystop", "start"}
          \/ cur = "joymove" /\ running /\ ~(stick') => "joy" \in tms
      BY <2>0, <2>1
    <3>2. cur' = "joymove" /\ running /\ ~(stick') => "joy" \in timers'
      BY <2>0, <2>1, <3>1, OnEventJoy
    <3> QED BY <2>1, <3>2 DEF JoyStuck
  <2>2. ASSUME running' = running, stick' = stick, cur' = cur,
               "joy" \in timers => "joy" \in timers'
        PROVE  ~JoyStuck'
    BY <2>0, <2>2 DEF JoyStuck
  <2>3. CASE StartOn
    <3>1. OnEvent("start", TRUE, timers \cup Periodic, probes, skill, home)
      BY <2>3 DEF StartOn
    <3>2. cur' = "idle"
      BY <2>0, <3>1 DEF OnEvent, Deaf, NewState
    <3> QED BY <3>2 DEF JoyStuck
  <2>4. CASE StopOff
    BY <2>4 DEF StopOff, JoyStuck
  <2>5. CASE IdleTimer \/ ResetPosTimer
    BY <2>1, <2>5 DEF IdleTimer, ResetPosTimer, world
  <2>6. CASE IdleProbe
    <3>1. CASE target
      BY <2>1, <2>6, <3>1 DEF IdleProbe, world
    <3>2. CASE ~target
      BY <2>2, <2>6, <3>2 DEF IdleProbe, world
    <3> QED BY <3>1, <3>2
  <2>7. CASE JoyTimer
    BY <2>1, <2>7 DEF JoyTimer, world
  <2>8. CASE CastSkillTimer \/ ToSimpleMode \/ ToNormalMode
    BY <2>2, <2>8 DEF CastSkillTimer, ToSimpleMode, ToNormalMode, ai, world
  <2>9. CASE OnJoyStickMove
    BY <2>1, <2>9 DEF OnJoyStickMove
  <2>10. CASE OnJoyStickStop
    <3>1. OnEvent("nojoy", running, timers, probes, skill, FALSE)
      BY <2>10, Zenon DEF OnJoyStickStop
    <3>2. running' = running
      BY <2>10 DEF OnJoyStickStop
    <3>3. ~JoyStuck'
      <4>1. "nojoy" = "joy" => stick'
        OBVIOUS
      <4> QED BY <3>1, <3>2, <4>1, <2>1, Zenon
    <3> QED BY <3>3
  <2>11. CASE NavigationEnds
    <3>1. OnEvent("backtopos", running, timers, probes, skill, FALSE)
      BY <2>11, Zenon DEF NavigationEnds
    <3>2. running' = running /\ stick' = stick
      BY <2>11 DEF NavigationEnds
    <3>3. ~JoyStuck'
      <4>1. "backtopos" = "joy" => stick'
        OBVIOUS
      <4> QED BY <3>1, <3>2, <4>1, <2>1, Zenon
    <3> QED BY <3>3
  <2>12. CASE NavigationStops \/ OnButtonCastSkill \/ WorldChanges
    BY <2>2, <2>12 DEF NavigationStops, OnButtonCastSkill, WorldChanges, ai, world
  <2>13. CASE UpdateWalkToTargetState
    <3>1. running' = running /\ stick' = stick
      BY <2>13 DEF UpdateWalkToTargetState, world
    <3>2. CASE OnEvent("nomonster", running, timers, probes, "None", home)
      BY <3>1, <3>2, <2>1
    <3>3. CASE UNCHANGED ai
      BY <3>1, <3>3, <2>2 DEF ai
    <3> QED BY <2>13, <3>2, <3>3 DEF UpdateWalkToTargetState, ai
  <2>14. CASE SkillExpires
    BY <2>1, <2>2, <2>14 DEF SkillExpires, ai, world
  <2>15. CASE NotifyAttackComplete
    BY <2>1, <2>15 DEF NotifyAttackComplete, world
  <2>16. CASE RemoveEffect
    BY <2>1, <2>16 DEF RemoveEffect, world
  <2>17. CASE UNCHANGED vars
    BY <2>2, <2>17 DEF vars, ai, world
  <2> QED
    BY <2>3, <2>4, <2>5, <2>6, <2>7, <2>8, <2>9, <2>10, <2>11, <2>12, <2>13,
       <2>14, <2>15, <2>16, <2>17 DEF Next
<1>2. [Next]_vars => [Leads]_vars
  BY <1>1
<1> QED BY <1>2, PTL DEF Spec, JoyEnds
=============================================================================
