----------------------------- MODULE FramePool -----------------------------
(***************************************************************************)
(* What the list of free frames of a memory device promises its users, as  *)
(* long as nobody gives a frame back: the frames are handed out one by one *)
(* in the order of the list, each in one step to one user, who keeps it.   *)
(* PageMap.tla is shown to implement two of them.                          *)
(***************************************************************************)
EXTENDS Naturals, Sequences, TLAPS

CONSTANTS
    NumFrames,  \* frames of the device
    Users       \* who may hold a frame

VARIABLES
    free,       \* the free frames, the next one first
    users       \* who holds each frame

poolVars == <<free, users>>

PoolInit ==
    /\ free = [i \in 1..NumFrames |-> i - 1]
    /\ users = [f \in 0..(NumFrames - 1) |-> {}]

Take(u) ==
    /\ free # <<>>
    /\ free' = Tail(free)
    /\ users' = [users EXCEPT ![Head(free)] = {u}]

PoolNext == \E u \in Users : Take(u)

PoolSafety == PoolInit /\ [][PoolNext]_poolVars

-----------------------------------------------------------------------------

\* The frames below k are taken, the others are free.
TakenUpTo(k) ==
    /\ Len(free) = NumFrames - k
    /\ \A i \in 1..(NumFrames - k) : free[i] = k + i - 1
    /\ \A f \in 0..(NumFrames - 1) :
          IF f < k THEN \E u \in Users : users[f] = {u} ELSE users[f] = {}

(***************************************************************************)
(* The order of MEMPHY_format is kept: whoever holds a frame, all frames   *)
(* with smaller numbers have one holder each, and the free ones follow in  *)
(* the list without a gap.                                                 *)
(***************************************************************************)
TakenInOrder == \E k \in 0..NumFrames : TakenUpTo(k)

\* The list is used up from its head, for every number of frames and users.
THEOREM FramesInOrder == ASSUME NumFrames \in Nat
                         PROVE  PoolSafety => []TakenInOrder
<1> DEFINE Types == free \in Seq(Nat) /\ users \in [0..(NumFrames - 1) -> SUBSET Users]
           J == TakenInOrder /\ Types
<1>0. NumFrames \in Nat
  OBVIOUS
<1>1. PoolInit => J
  <2> SUFFICES ASSUME PoolInit PROVE J
    OBVIOUS
  <2>1. Types /\ Len(free) = NumFrames
    BY <1>0 DEF PoolInit
  <2>2. TakenUpTo(0)
    BY <1>0, <2>1 DEF PoolInit, TakenUpTo
  <2> QED  BY <1>0, <2>1, <2>2 DEF TakenInOrder
<1>2. J /\ [PoolNext]_poolVars => J'
  <2> SUFFICES ASSUME J, [PoolNext]_poolVars PROVE J'
    OBVIOUS
  <2>1. PICK k \in 0..NumFrames : TakenUpTo(k)
    BY DEF TakenInOrder
  <2>2. CASE UNCHANGED poolVars
    BY <2>1, <2>2 DEF poolVars, TakenInOrder, TakenUpTo
  <2>3. ASSUME NEW u \in Users, Take(u)
        PROVE  J'
    <3>1. /\ Len(free) \in Nat \ {0} /\ Head(free) = free[1] /\ free' \in Seq(Nat)
          /\ Len(free') = Len(free) - 1
          /\ \A i \in 1..(Len(free) - 1) : free'[i] = free[i + 1]
      BY <2>3 DEF Take
    <3>2. /\ k + 1 \in 0..NumFrames /\ k \in 0..(NumFrames - 1) /\ k \in Nat
          /\ Head(free) = k /\ Len(free) = NumFrames - k
      BY <1>0, <2>1, <3>1 DEF TakenUpTo
    <3>3. users' = [users EXCEPT ![k] = {u}]
      BY <2>3, <3>2 DEF Take
    <3>4. Len(free') = NumFrames - (k + 1)
      BY <1>0, <3>1, <3>2
    <3>5. \A i \in 1..(NumFrames - (k + 1)) : free'[i] = (k + 1) + i - 1
      <4>1. \A i \in 1..(NumFrames - (k + 1)) : i + 1 \in 1..(NumFrames - k)
        BY <1>0, <3>2
      <4> QED  BY <1>0, <2>1, <3>1, <3>2, <4>1 DEF TakenUpTo
    <3>6. \A f \in 0..(NumFrames - 1) :
             IF f < k + 1 THEN \E v \in Users : users'[f] = {v} ELSE users'[f] = {}
      BY <1>0, <2>1, <2>3, <3>2, <3>3 DEF TakenUpTo
    <3>7. TakenUpTo(k + 1)'
      BY <3>4, <3>5, <3>6 DEF TakenUpTo
    <3>8. Types'
      BY <2>3, <3>1, <3>3
    <3> QED  BY <3>2, <3>7, <3>8 DEF TakenInOrder
  <2> QED  BY <2>2, <2>3 DEF PoolNext
<1>3. J => TakenInOrder
  OBVIOUS
<1> HIDE DEF J
<1> QED  BY <1>1, <1>2, <1>3, PTL DEF PoolSafety
=============================================================================
