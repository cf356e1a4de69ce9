-------------------------------- MODULE AutoAI --------------------------------
(***************************************************************************)
(* Automatic fighting (character/ai/autoai.lua and autoaistate.lua): a     *)
(* state machine that events move, timers that raise some of the events,   *)
(* and the player's skills (roleskillfsm.lua), which raise the others and  *)
(* which the machine uses to attack.                                       *)
(*                                                                         *)
(* A handler runs to its end, but what it needs may have gone by then: an  *)
(* event that comes while a cutscene plays or while automatic fighting is  *)
(* off is dropped, a timer outlives the state that started it, and a       *)
(* navigation is replaced, with its callback, by the next one.             *)
(***************************************************************************)
EXTENDS Naturals

CONSTANT MaxProbes  \* as many FrameTimers of the idle state are told apart

ASSUME AutoAIAssumption == MaxProbes \in Nat \ {0}

VARIABLES running,   \* _Running
          cur,       \* _curState
          timers,    \* the Timers that run
          probes,    \* FrameTimers of the idle state that wait
          simple,    \* _IsSimpleMode
          skill,     \* RoleSkillFsm.m_CurrentState
          home,      \* the navigation under way leads back to _StartPos
          far,       \* the role is out of range of _StartPos
          stick,     \* the joystick is held
          target,    \* CharacterManager.GetRoleNearestAttackableTarget()
          able,      \* PlayerRole:CanAttack(), a skill is ready and finds its target
          cutscene   \* PlotManager.IsPlayingCutscene()

ai == <<cur, timers, probes>>
world == <<far, stick, target, able, cutscene>>
vars == <<running, ai, simple, skill, home, world>>

States == {"none", "idle", "attack", "joymove", "automove"}
SkillStates == {"None", "WalkToTarget", "Attacking", "WaitForNextSkill"}

(* Timers that Start starts and stops; idle and joy belong to a state.     *)
Periodic == {"heal", "resetpos", "cast", "simple"}

Init == /\ running = FALSE
        /\ cur = "none"
        /\ timers = {}
        /\ probes = 0
        /\ simple = FALSE
        /\ skill = "None"
        /\ home = FALSE
        /\ far = FALSE
        /\ stick = FALSE
        /\ target \in BOOLEAN
        /\ able \in BOOLEAN
        /\ cutscene \in BOOLEAN
-----------------------------------------------------------------------------
(* The transition table.  A transition of any state comes first; an event  *)
(* without one keeps the state (in none the look-up itself fails).         *)
Kept == cur

NewState(event) ==
    CASE event = "automove" -> "automove"
      [] event = "joy" -> "joymove"
      [] event = "stop" -> "none"
      [] event = "start" -> "idle"
      [] event = "monster" /\ cur = "idle" -> "attack"
      [] event = "nomonster" /\ cur = "attack" -> "idle"
      [] event = "joystop" /\ cur = "joymove" -> "idle"
      [] event = "backtopos" /\ cur = "automove" -> "idle"
      [] OTHER -> Kept

(* Exit of the old state and Enter of the new one: only idle has any.      *)
ExitKeepsTimer(new, tms) == tms           \* mutant: Exit does not stop the timer
Exit(new, tms) == IF cur = "idle" /\ new # cur THEN tms \ {"idle"} ELSE tms

EnterArmsNothing(new, tms) == tms         \* mutant: Enter does not start the timer
Enter(new, tms) == IF new = "idle" /\ new # cur THEN tms \cup {"idle"} ELSE tms

Probed(new, n) ==
    IF new = "idle" /\ new # cur /\ n < MaxProbes THEN n + 1 ELSE n

(* FSMStateAttack:Attack tries the skills in turn and the normal attack    *)
(* last.  One skill may interrupt another, and a skill that finds no       *)
(* target for itself resets the RoleSkillFsm.                              *)
AttackNow(skl) ==
    CASE target /\ able -> {"WalkToTarget", "Attacking"} \cup ({skl} \ {"None"})
      [] target /\ ~able -> {skl, "None"}
      [] OTHER -> {skl}

(* What the state entered, or kept, does with the event.                   *)
Attacks(new, event, skl) ==
    IF new = "attack" /\ event \in {"skillover", "monster"}
    THEN AttackNow(skl) ELSE {skl}

JoyArmedNever(new, event, tms) == tms     \* mutant: nojoy is not handled
JoyArmed(new, event, tms) ==
    IF new = "joymove" /\ event = "nojoy" THEN tms \cup {"joy"} ELSE tms

GoesHome(new, event, hm) == hm \/ (new = "automove" /\ event = "automove")

(* autoai.OnEvent: on is _Running at the time of the call; tms, prb, skl   *)
(* and hm are the values the caller leaves in timers, probes, skill, home. *)
Deaf(on) == ~on \/ cutscene

OnEvent(event, on, tms, prb, skl, hm) ==
    IF Deaf(on)
    THEN /\ UNCHANGED cur
         /\ timers' = tms
         /\ probes' = prb
         /\ skill' = skl
         /\ home' = hm
    ELSE LET new == NewState(event) IN
         /\ cur' = new
         /\ timers' = JoyArmed(new, event, Enter(new, Exit(new, tms)))
         /\ probes' = Probed(new, prb)
         /\ skill' \in Attacks(new, event, skl)
         /\ home' = GoesHome(new, event, hm)
-----------------------------------------------------------------------------
(* autoai.Start: _Running is set before the event is raised.               *)
StartOn ==
    /\ ~running
    /\ running' = TRUE
    /\ OnEvent("start", TRUE, timers \cup Periodic, probes, skill, home)
    /\ far' = FALSE                                  \* RecordStartPos
    /\ UNCHANGED <<simple, stick, target, able, cutscene>>

StopOff ==
    /\ running
    /\ running' = FALSE
    /\ OnEvent("stop", FALSE, timers \ Periodic, probes, skill, home)
    /\ UNCHANGED <<simple, world>>

(* ifunc, called by the idle state's timer, and by the FrameTimer that     *)
(* Enter starts and Exit does not stop.                                    *)
IdleTimer ==
    /\ "idle" \in timers
    /\ target
    /\ OnEvent("monster", running, timers, probes, skill, home)
    /\ UNCHANGED <<running, simple, world>>

IdleProbe ==
    /\ probes > 0
    /\ IF target
       THEN OnEvent("monster", running, timers, probes - 1, skill, home)
       ELSE /\ probes' = probes - 1
            /\ UNCHANGED <<cur, timers, skill, home>>
    /\ UNCHANGED <<running, simple, world>>

(* jfunc, two seconds after the joystick was let go.  The timer has one    *)
(* loop: it stops after the call.                                          *)
JoyTimer ==
    /\ "joy" \in timers
    /\ OnEvent("joystop", running, timers \ {"joy"}, probes, skill, home)
    /\ UNCHANGED <<running, simple, world>>

(* ReturnToStartPos                                                        *)
ResetPosTimer ==
    /\ "resetpos" \in timers
    /\ far
    /\ OnEvent("automove", running, timers, probes, skill, home)
    /\ UNCHANGED <<running, simple, world>>

(* CastSkill calls the state's OnEvent, not autoai.OnEvent.                *)
CastSkillTimer ==
    /\ "cast" \in timers
    /\ cur = "attack" /\ target /\ skill = "None"
    /\ skill' \in Attacks(cur, "skillover", skill)
    /\ UNCHANGED <<running, ai, simple, home, world>>

ToSimpleMode ==
    /\ "simple" \in timers
    /\ ~simple
    /\ simple' = TRUE
    /\ timers' = timers \ {"simple"}
    /\ UNCHANGED <<running, cur, probes, skill, home, world>>

(* The player touches the screen: cameramanager.lua asks IsRunning first.  *)
TouchAlways == TRUE                       \* mutant: IsRunning is not asked
TouchHeeded == running

ToNormalMode ==
    /\ TouchHeeded
    /\ timers' = timers \cup {"simple"}
    /\ simple' = FALSE
    /\ UNCHANGED <<running, cur, probes, skill, home, world>>
-----------------------------------------------------------------------------
(* The joystick: moving stops a navigation, and a walk to a target.        *)
WalkGivenUp(skl) == IF skl = "WalkToTarget" THEN "None" ELSE skl

OnJoyStickMove ==
    /\ stick' = TRUE
    /\ OnEvent("joy", running, timers, probes, WalkGivenUp(skill), FALSE)
    /\ UNCHANGED <<running, simple, far, target, able, cutscene>>

OnJoyStickStop ==
    /\ stick
    /\ stick' = FALSE
    /\ OnEvent("nojoy", running, timers, probes, skill, FALSE)
    /\ UNCHANGED <<running, simple, far, target, able, cutscene>>

(* Navigation: it arrives and calls back, or it is stopped or replaced.    *)
NavigationEnds ==
    /\ home
    /\ far' = FALSE
    /\ OnEvent("backtopos", running, timers, probes, skill, FALSE)
    /\ UNCHANGED <<running, simple, stick, target, able, cutscene>>

NavigationStops ==
    /\ home
    /\ home' = FALSE
    /\ UNCHANGED <<running, ai, simple, skill, world>>
-----------------------------------------------------------------------------
(* RoleSkillFsm.  The role walks to its target, which replaces any other   *)
(* navigation, attacks when it is near, gives up when it cannot get there, *)
(* and finds that the target is gone.                                      *)
UpdateWalkToTargetState ==
    /\ skill = "WalkToTarget"
    /\ \/ /\ OnEvent("nomonster", running, timers, probes, "None", home)
       \/ /\ home' \in {home, FALSE}
          /\ skill' \in {"WalkToTarget", "Attacking"}
          /\ UNCHANGED ai
       \/ /\ skill' = "None"
          /\ UNCHANGED <<ai, home>>
    /\ UNCHANGED <<running, simple, world>>

(* The time of the attack is over, or of the wait for the next skill.      *)
SkillExpires ==
    /\ \/ /\ skill = "Attacking"
          /\ OnEvent("skillover", running, timers, probes, "None", home)
       \/ /\ skill = "WaitForNextSkill"
          /\ skill' = "None"
          /\ UNCHANGED <<ai, home>>
    /\ UNCHANGED <<running, simple, world>>

NotifyAttackComplete ==
    /\ skill # "None"
    /\ \E s \in {"WaitForNextSkill", "None"} :
          OnEvent("skillover", running, timers, probes, s, home)
    /\ UNCHANGED <<running, simple, world>>

RemoveEffect ==
    /\ OnEvent("skillover", running, timers, probes, skill, home)
    /\ UNCHANGED <<running, simple, world>>

(* The player uses a skill, or sends the role elsewhere (reset).           *)
OnButtonCastSkill ==
    /\ skill' \in {skill, "None", "WalkToTarget", "Attacking"}
    /\ UNCHANGED <<running, ai, simple, home, world>>

(* What happens around the role.                                           *)
WorldChanges ==
    /\ far' \in BOOLEAN /\ target' \in BOOLEAN
    /\ able' \in BOOLEAN /\ cutscene' \in BOOLEAN
    /\ UNCHANGED <<running, ai, simple, skill, home, stick>>

Next == \/ StartOn \/ StopOff
        \/ IdleTimer \/ IdleProbe \/ JoyTimer \/ ResetPosTimer
        \/ CastSkillTimer \/ ToSimpleMode \/ ToNormalMode
        \/ OnJoyStickMove \/ OnJoyStickStop
        \/ NavigationEnds \/ NavigationStops
        \/ UpdateWalkToTargetState \/ SkillExpires
        \/ NotifyAttackComplete \/ RemoveEffect \/ OnButtonCastSkill
        \/ WorldChanges

(* Timers and the skills' clocks advance with every frame.  Nothing makes  *)
(* the player act, a navigation end or the world change.                   *)
Fairness == /\ WF_vars(IdleTimer) /\ WF_vars(IdleProbe) /\ WF_vars(JoyTimer)
            /\ WF_vars(ResetPosTimer) /\ WF_vars(CastSkillTimer)
            /\ WF_vars(SkillExpires)

Spec == Init /\ [][Next]_vars
LiveSpec == Spec /\ Fairness
-----------------------------------------------------------------------------
(* Every variable keeps its type. *)
TypeOK ==
    /\ running \in BOOLEAN
    /\ cur \in States
    /\ timers \subseteq Periodic \cup {"idle", "joy"}
    /\ probes \in 0..MaxProbes
    /\ simple \in BOOLEAN
    /\ skill \in SkillStates
    /\ home \in BOOLEAN
    /\ far \in BOOLEAN /\ stick \in BOOLEAN
    /\ target \in BOOLEAN /\ able \in BOOLEAN
    /\ cutscene \in BOOLEAN

(* The idle state's timer runs just while the machine is idle, although    *)
(* Start(false) does not take the machine out of idle and start does not   *)
(* enter idle again: a machine that is idle always looks for monsters.     *)
IdleWatched == cur = "idle" <=> "idle" \in timers

(* Once automatic fighting is off none of its periodic timers is left: it  *)
(* uses no potion, casts no skill, and does not switch the display to      *)
(* simple mode, although the machine itself stays in the state it was in.  *)
OffMeansOff == ~running => timers \cap Periodic = {}

(* With automatic fighting off, or in a cutscene, the machine does not     *)
(* move, whatever timers and skills report.                                *)
FrozenWhenDeaf ==
    [][(~running /\ ~running') \/ (cutscene /\ cutscene') => cur' = cur]_vars

(* joymove with the joystick released and nothing under way to end it.     *)
JoyStuck == cur = "joymove" /\ running /\ ~stick /\ "joy" \notin timers

(* Only a cutscene strands the machine in joymove: else letting the        *)
(* joystick go arms the timer that leads out, also when it was let go      *)
(* while automatic fighting was off, or when the state was left and        *)
(* entered again while the timer ran.                                      *)
JoyEnds == [][JoyStuck' => JoyStuck \/ cutscene]_vars

Calm == running /\ ~cutscene /\ target /\ able /\ ~stick /\ ~far

(* The three ways in which automatic fighting hangs: it was started in a   *)
(* cutscene and never left none; the cutscene swallowed nojoy or joystop;  *)
(* the way back lost its callback, or does not end, while the role is in   *)
(* range and resetpos does not send it again.                              *)
Hung == \/ cur = "none"
        \/ JoyStuck
        \/ cur = "automove"

(* While nothing keeps it from fighting, it uses skills again and again,   *)
(* or it hangs in one of these three ways: every other loss of an event is *)
(* made up for by a timer.                                                 *)
AttacksOrHangs ==
    <>[]Calm => []<>(skill # "None") \/ <>[]Hung
=============================================================================
