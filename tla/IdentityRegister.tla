-------------------------- MODULE IdentityRegister --------------------------
(***************************************************************************)
(* What the reservation log of a release family promises its callers: a    *)
(* register in which a key is given one name that no other key ever has,   *)
(* a reservation gets one outcome that never changes, and whatever a       *)
(* caller was told stays true.                                             *)
(***************************************************************************)
CONSTANTS Key, Name, NoName, Result, NoResult

VARIABLES reserved,   \* the name each key owns, or NoName
          result,     \* the outcome of each key's reservation, or NoResult
          told        \* what callers were told: <<key, name, result>>

vars == <<reserved, result, told>>

Init ==
    /\ reserved = [k \in Key |-> NoName]
    /\ result = [k \in Key |-> NoResult]
    /\ told = {}

Reserve(k, n) ==
    /\ reserved[k] = NoName
    /\ \A other \in Key : reserved[other] # n
    /\ reserved' = [reserved EXCEPT ![k] = n]
    /\ UNCHANGED <<result, told>>

Resolve(k, r) ==
    /\ reserved[k] # NoName
    /\ result[k] = NoResult
    /\ result' = [result EXCEPT ![k] = r]
    /\ UNCHANGED <<reserved, told>>

(* A caller may be told less than is known - that there is no outcome yet  *)
(* - but never something else.                                             *)
Tell(k, r) ==
    /\ reserved[k] # NoName
    /\ r \in {result[k], NoResult}
    /\ told' = told \cup {<<k, reserved[k], r>>}
    /\ UNCHANGED <<reserved, result>>

(* Most steps of an implementation change none of this: they are tried     *)
(* first.                                                                  *)
Next ==
    \/ UNCHANGED vars
    \/ \E k \in Key :
         \/ \E n \in Name : Reserve(k, n)
         \/ \E r \in Result : Resolve(k, r)
         \/ \E r \in Result \cup {NoResult} : Tell(k, r)

Spec == Init /\ [][Next]_vars
=============================================================================
