------------------------ MODULE ThreadSafeQueue_proofs ------------------------
(***************************************************************************)
(* Proofs about ThreadSafeQueue, for any finite set of workers, any        *)
(* pushing threads and any values.                                         *)
(***************************************************************************)
EXTENDS ThreadSafeQueue, FiniteSetTheorems, TLAPS

\* Type correctness, the counters and the wake-up discipline support each other:
\* popw - 1 is a natural number because popw counts the thread that leaves, and a
\* push notifies when it must because currentSize is the length of the list.
QInv == QTypeOK /\ CountsAgree /\ NoSleeperAfterClose /\ SomeoneComes
------------------------------------------------------------------------------
\* Adding and removing one thread changes the number of threads inside by one.
LEMMA InsideCount ==
  ASSUME QTypeOK, NEW c \in Poppers
  PROVE  /\ IsFiniteSet(Inside)
         /\ Cardinality(Inside) \in Nat
         /\ c \notin Inside => Cardinality(Inside \cup {c}) = Cardinality(Inside) + 1
         /\ c \in Inside => Cardinality(Inside \ {c}) = Cardinality(Inside) - 1
         /\ Cardinality(Inside \ {c}) \in Nat
<1>1. Inside \in SUBSET Poppers
  BY DEF QTypeOK, Inside
<1>2. IsFiniteSet(Inside)
  BY <1>1, FS_Subset, QueueAssumption
<1>3. IsFiniteSet(Inside \ {c})
  BY <1>2, FS_RemoveElement
<1> QED
  BY <1>2, <1>3, FS_AddElement, FS_RemoveElement, FS_CardinalityType

\* What notify_one leaves alone: nobody enters or leaves pop().
LEMMA NotifyOneKeepsInside ==
  ASSUME QTypeOK, asleep \cap woken = {}, NotifyOne
  PROVE  /\ asleep' \subseteq asleep
         /\ asleep' \cap woken' = {}
         /\ Inside' = Inside
         /\ woken' \subseteq Poppers
         /\ asleep # {} => \E c \in asleep : c \notin asleep'
  BY DEF QTypeOK, NotifyOne, Inside

\* push: the list and its size grow together, and the first value wakes somebody.
LEMMA PushPreserves ==
  ASSUME QInv, NEW v \in Items, Push(v)
  PROVE  QInv'
<1> USE DEF QInv, CountsAgree
<1>1. /\ list' \in Seq(Items)
      /\ Len(list') = Len(list) + 1
      /\ Len(list) \in Nat
      /\ list = <<>> <=> Len(list) = 0
  BY DEF Push, QTypeOK
<1>2. /\ asleep' \subseteq asleep
      /\ asleep' \cap woken' = {}
      /\ Inside' = Inside
      /\ woken' \subseteq Poppers
      /\ (list = <<>> /\ asleep # {}) => \E c \in asleep : c \notin asleep'
  <2>1. CASE currentSize' = 1
    BY <2>1, NotifyOneKeepsInside DEF Push
  <2>2. CASE currentSize' # 1
    BY <2>2, <1>1 DEF Push, QTypeOK, Inside
  <2> QED BY <2>1, <2>2
<1>3. QTypeOK'
  BY <1>1, <1>2 DEF QTypeOK, Push
<1>4. CountsAgree'
  BY <1>1, <1>2 DEF Push, QTypeOK
<1>5. NoSleeperAfterClose'
  BY <1>2 DEF NoSleeperAfterClose, Push
<1>6. SomeoneComes'
  <2>1. CASE list = <<>>
    BY <2>1, <1>2, QueueAssumption DEF SomeoneComes, QTypeOK
  <2>2. CASE list # <<>>
    BY <2>2, <1>2 DEF SomeoneComes, Push
  <2> QED BY <2>1, <2>2
<1> QED BY <1>3, <1>4, <1>5, <1>6

\* pop, by a thread that has just been counted (c \notin Inside) or that has
\* been notified (c \in woken): it sleeps, is refused, or gets a value.
LEMMA PopPreserves ==
  ASSUME QInv, NEW c \in Poppers, NEW p \in Nat,
         \/ c \notin Inside \cup ended /\ p = popw + 1
         \/ c \in woken /\ p = popw,
         PopFrom(c, p)
  PROVE  QInv'
<1> USE DEF QInv
<1>1. /\ p - 1 \in Nat
      /\ p = Cardinality(Inside \cup {c})
      /\ p - 1 = Cardinality(Inside \ {c})
      /\ c \notin asleep
  <2>1. CASE c \notin Inside \cup ended /\ p = popw + 1
    <3>1. Inside \ {c} = Inside /\ c \notin asleep
      BY <2>1 DEF Inside
    <3>2. /\ Cardinality(Inside) \in Nat
          /\ Cardinality(Inside \cup {c}) = Cardinality(Inside) + 1
      BY <2>1, InsideCount
    <3>3. popw = Cardinality(Inside) /\ p = popw + 1
      BY <2>1 DEF CountsAgree
    <3>4. Cardinality(Inside \ {c}) = Cardinality(Inside)
      BY <3>1
    <3> QED BY <3>1, <3>2, <3>3, <3>4
  <2>2. CASE c \in woken /\ p = popw
    <3>1. c \in Inside /\ Inside \cup {c} = Inside /\ c \notin asleep
      BY <2>2 DEF Inside, CountsAgree
    <3>2. /\ Cardinality(Inside \ {c}) \in Nat
          /\ Cardinality(Inside \ {c}) = Cardinality(Inside) - 1
      BY <3>1, InsideCount
    <3> QED BY <2>2, <3>1, <3>2 DEF CountsAgree
  <2> QED BY <2>1, <2>2
<1>2. CASE Sleep(c, p)
  <2>1. Inside' = Inside \cup {c} /\ c \notin ended
    BY <1>2 DEF Sleep, Inside, CountsAgree
  <2>2. QTypeOK'
    BY <1>2 DEF QTypeOK, Sleep
  <2>3. CountsAgree'
    BY <1>1, <1>2, <2>1 DEF CountsAgree, Sleep, Inside
  <2> QED BY <1>2, <2>2, <2>3 DEF Sleep, NoSleeperAfterClose, SomeoneComes
<1>3. CASE Refuse(c, p)
  <2>1. Inside' = Inside \ {c}
    BY <1>1, <1>3 DEF Refuse, Inside
  <2>2. QTypeOK'
    BY <1>1, <1>3 DEF QTypeOK, Refuse
  <2>3. CountsAgree'
    BY <1>1, <1>3, <2>1 DEF CountsAgree, Refuse, Inside
  <2> QED BY <1>3, <2>2, <2>3 DEF Refuse, NoSleeperAfterClose, SomeoneComes
<1>4. CASE HandOut(c, p)
  <2>1. Inside' = Inside \ {c}
    BY <1>1, <1>4 DEF HandOut, Inside
  <2>2. /\ Head(list) \in Items
        /\ Tail(list) \in Seq(Items)
        /\ Len(Tail(list)) = Len(list) - 1
        /\ Len(list) - 1 \in Nat
    BY <1>4 DEF HandOut, QTypeOK
  <2>3. QTypeOK'
    <3>1. held' \in [Poppers -> Items \cup {NoItem}]
      BY <1>4, <2>2 DEF QTypeOK, HandOut
    <3>2. currentSize' \in Nat /\ list' \in Seq(Items) /\ popw' \in Nat
      BY <1>1, <1>4, <2>2 DEF CountsAgree, HandOut
    <3> QED BY <1>4, <3>1, <3>2 DEF QTypeOK, HandOut
  <2>4. CountsAgree'
    BY <1>1, <1>4, <2>1, <2>2 DEF CountsAgree, HandOut, Inside
  <2>5. SomeoneComes'
    BY <1>1, <1>4 DEF HandOut, SomeoneComes
  <2> QED BY <1>4, <2>3, <2>4, <2>5 DEF HandOut, NoSleeperAfterClose
<1> QED BY <1>2, <1>3, <1>4 DEF PopFrom

LEMMA QInitInv == QInit => QInv
<1> SUFFICES ASSUME QInit PROVE QInv
  OBVIOUS
<1>1. QTypeOK
  <2>1. list \in Seq(Items) /\ held \in [Poppers -> Items \cup {NoItem}]
    BY DEF QInit
  <2> QED BY <2>1 DEF QInit, QTypeOK
<1>2. CountsAgree
  BY FS_EmptySet DEF QInit, CountsAgree, Inside
<1> QED BY <1>1, <1>2 DEF QInit, QInv, NoSleeperAfterClose, SomeoneComes

LEMMA QNextInv == QInv /\ [QNext]_qVars => QInv'
<1> SUFFICES ASSUME QInv, [QNext]_qVars PROVE QInv'
  OBVIOUS
<1>1. ASSUME NEW p \in Pushers, NEW v \in Items, PushBy(p, v) PROVE QInv'
  BY <1>1, PushPreserves DEF PushBy
<1>2. ASSUME NEW c \in Poppers, PopBegin(c) PROVE QInv'
  <2>1. popw + 1 \in Nat
    BY DEF QInv, QTypeOK
  <2> QED BY <1>2, <2>1, PopPreserves DEF PopBegin
<1>3. ASSUME NEW c \in Poppers, PopResume(c) PROVE QInv'
  <2>1. popw \in Nat
    BY DEF QInv, QTypeOK
  <2> QED BY <1>3, <2>1, PopPreserves DEF PopResume
<1>4. ASSUME NEW c \in Poppers, PopSpurious(c) PROVE QInv'
  <2>1. Inside' = Inside
    BY <1>4 DEF PopSpurious, Inside
  <2> QED BY <1>4, <2>1 DEF PopSpurious, QInv, QTypeOK, CountsAgree,
                            NoSleeperAfterClose, SomeoneComes
<1>5. ASSUME NEW o \in Observers, IdleBlock(o) PROVE QInv'
  BY <1>5 DEF IdleBlock, QInv, QTypeOK, CountsAgree, NoSleeperAfterClose,
              SomeoneComes, Inside
<1>6. CASE Close
  <2>1. Inside' = Inside
    BY <1>6 DEF Close, Inside
  <2> QED BY <1>6, <2>1 DEF Close, QInv, QTypeOK, CountsAgree, NoSleeperAfterClose,
                            SomeoneComes, Inside
<1>7. CASE UNCHANGED qVars
  BY <1>7 DEF qVars, QInv, QTypeOK, CountsAgree, NoSleeperAfterClose, SomeoneComes, Inside
<1> QED BY <1>1, <1>2, <1>3, <1>4, <1>5, <1>6, <1>7 DEF QNext

\* The inductive invariant, of every execution.
THEOREM QueueInvariant == QSafeSpec => []QInv
  BY QInitInv, QNextInv, PTL DEF QSafeSpec

\* The types of the queue's variables.
THEOREM QueueTypeOK == QSafeSpec => []QTypeOK
<1>1. QInv => QTypeOK
  BY DEF QInv
<1> QED BY <1>1, QueueInvariant, PTL

\* currentSize and popw agree with what they count, for any number of workers.
THEOREM QueueCounts == QSafeSpec => []CountsAgree
<1>1. QInv => CountsAgree
  BY DEF QInv
<1> QED BY <1>1, QueueInvariant, PTL

\* notify_one on the step from empty to one value is enough: a value in an open queue
\* never meets a queue whose workers are all asleep.
THEOREM NoStrandedValue == QSafeSpec => []SomeoneComes
<1>1. QInv => SomeoneComes
  BY DEF QInv
<1> QED BY <1>1, QueueInvariant, PTL

\* The notify_all of close() reaches everybody: nobody sleeps in pop() once the queue is
\* closed, and nobody goes to sleep any more.
THEOREM CloseLeavesNobody == QSafeSpec => []NoSleeperAfterClose
<1>1. QInv => NoSleeperAfterClose
  BY DEF QInv
<1> QED BY <1>1, QueueInvariant, PTL
------------------------------------------------------------------------------
\* The safety part of the abstract specification.
AbstractSafety == Abstract!WQInit /\ [][Abstract!WQNext]_(Abstract!wqVars)

\* The queue hands out what was pushed, in order, each value once, and nothing once it
\* is closed: every step is a step of WorkQueue or leaves WorkQueue's state alone.
THEOREM QueueImplementsWorkQueue == QSafeSpec => AbstractSafety
<1>1. QInit => Abstract!WQInit
  BY DEF QInit, Abstract!WQInit
<1>2. [QNext]_qVars => [Abstract!WQNext]_(Abstract!wqVars)
  <2> SUFFICES ASSUME [QNext]_qVars PROVE [Abstract!WQNext]_(Abstract!wqVars)
    OBVIOUS
  <2> USE DEF Abstract!wqVars, Abstract!WQNext
  <2>1. ASSUME NEW p \in Pushers, NEW v \in Items, PushBy(p, v)
        PROVE  Abstract!Put(v)
    BY <2>1 DEF PushBy, Push, Abstract!Put
  <2>2. ASSUME NEW c \in Poppers, NEW p, PopFrom(c, p)
        PROVE  Abstract!Take(c) \/ UNCHANGED <<list, held, closed>>
    BY <2>2 DEF PopFrom, Sleep, Refuse, HandOut, Abstract!Take
  <2>3. ASSUME NEW c \in Poppers, PopSpurious(c)
        PROVE  UNCHANGED <<list, held, closed>>
    BY <2>3 DEF PopSpurious
  <2>4. CASE Close
    BY <2>4 DEF Close, Abstract!Shut
  <2>5. ASSUME NEW o \in Observers, IdleBlock(o)
        PROVE  UNCHANGED <<list, held, closed>>
    BY <2>5 DEF IdleBlock
  <2> QED BY <2>1, <2>2, <2>3, <2>4, <2>5 DEF QNext, PopBegin, PopResume, qVars
<1> QED BY <1>1, <1>2, PTL DEF QSafeSpec, AbstractSafety
==============================================================================
