------------------------------ MODULE InstPool ------------------------------
(***************************************************************************)
(* The cache of character instances (character/characterinstpool.lua).     *)
(* Monsters and dropped items give their GameObject back to the pool when  *)
(* they are destroyed and take one of the same model out of it when the    *)
(* next one is created.  The pool is a Lua array, oldest entry first; it   *)
(* evicts the oldest entry when it is too long and, once a second, every   *)
(* entry that nobody has reused for MaxCacheTime.                          *)
(***************************************************************************)
EXTENDS Integers, Sequences, SequencesExt

CONSTANTS Models,        \* model names
          Objects,       \* GameObject identities; a destroyed one may be born again
          MaxPoolCount,  \* characterinstpool.lua:25
          MaxCacheTime,  \* characterinstpool.lua:26
          MaxNow         \* bound on the clock (model checking only)

ASSUME PoolAssumption == /\ Models \cap {"none", "pooled"} = {}
                         /\ MaxPoolCount \in Nat
                         /\ MaxCacheTime \in Nat
                         /\ MaxNow \in Nat

VARIABLES pool,   \* sequence of cached instances
          owner,  \* object -> the model it is shown with, "none" (no such
                  \* object alive) or "pooled"
          now     \* Time.time

PoolVars == <<pool, owner, now>>

CharacterInst == [model : Models, object : Objects, lastUse : 0..MaxNow]

PoolInit == /\ pool = <<>>
            /\ owner = [o \in Objects |-> "none"]
            /\ now = 0

(* GetCharacter: the first instance of that model leaves the pool.         *)
Match(m) == {i \in DOMAIN pool : pool[i].model = m}

TakenKept(i) == pool            \* mutant: the entry is not removed
Taken(i) == RemoveAt(pool, i)

GetCharacter(m) ==
    \E i \in Match(m) :
        /\ \A j \in Match(m) : i <= j
        /\ pool' = Taken(i)
        /\ owner' = [owner EXCEPT ![pool[i].object] = m]
        /\ UNCHANGED now

(* The miss: GetCharacter returns nil and the caller instantiates.         *)
Instantiate(m, o) ==
    /\ Match(m) = {}
    /\ owner[o] = "none"
    /\ owner' = [owner EXCEPT ![o] = m]
    /\ UNCHANGED <<pool, now>>

(* PutCharacter, called when a character that shows o is destroyed.  The   *)
(* length test comes before the insertion.                                 *)
Evicts == Len(pool) > MaxPoolCount

EnterFront(s, inst) == <<inst>> \o s   \* mutant: the new entry goes first
Enter(s, inst) == Append(s, inst)

PutCharacter(o) ==
    /\ owner[o] \in Models
    /\ LET inst == [model |-> owner[o], object |-> o, lastUse |-> now]
       IN  IF Evicts
           THEN /\ pool' = Enter(Tail(pool), inst)
                /\ owner' = [owner EXCEPT ![o] = "pooled",
                                          ![Head(pool).object] = "none"]
           ELSE /\ pool' = Enter(pool, inst)
                /\ owner' = [owner EXCEPT ![o] = "pooled"]
    /\ UNCHANGED now

(* second_update releases every instance that outlived its cache time; the *)
(* others close the gaps in the order they have.                           *)
Expired(inst) == now - inst.lastUse > MaxCacheTime

Kept == {i \in DOMAIN pool : ~Expired(pool[i])}

second_update ==
    /\ \E f \in Bijection(1..Cardinality(Kept), Kept) :
          /\ \A i, j \in 1..Cardinality(Kept) : i < j => f[i] < f[j]
          /\ pool' = [i \in 1..Cardinality(Kept) |-> pool[f[i]]]
    /\ owner' = [o \in Objects |->
                    IF \E i \in DOMAIN pool : pool[i].object = o /\ Expired(pool[i])
                    THEN "none" ELSE owner[o]]
    /\ UNCHANGED now

Tick == /\ now < MaxNow
        /\ now' = now + 1
        /\ UNCHANGED <<pool, owner>>

PoolNext == \/ \E m \in Models : GetCharacter(m)
            \/ \E m \in Models, o \in Objects : Instantiate(m, o)
            \/ \E o \in Objects : PutCharacter(o)
            \/ second_update
            \/ Tick

PoolSpec == PoolInit /\ [][PoolNext]_PoolVars
-----------------------------------------------------------------------------
(* Every variable keeps its type. *)
PoolTypeOK == /\ pool \in Seq(CharacterInst)
              /\ owner \in [Objects -> Models \cup {"none", "pooled"}]
              /\ now \in 0..MaxNow

(* The pool never holds two entries for one GameObject, and an object is   *)
(* in the pool exactly when no character shows it: GetCharacter never      *)
(* hands out an object that another character still uses or that           *)
(* Release has destroyed.                                                  *)
NoAlias ==
    /\ \A i, j \in DOMAIN pool : pool[i].object = pool[j].object => i = j
    /\ \A o \in Objects :
          owner[o] = "pooled" <=> \E i \in DOMAIN pool : pool[i].object = o

(* The array stays sorted by last use, so that entry 1, the one            *)
(* PutCharacter evicts, is the least recently used ("remove the earliest").*)
OldestFirst ==
    \A i, j \in DOMAIN pool : i < j => pool[i].lastUse <= pool[j].lastUse

=============================================================================
