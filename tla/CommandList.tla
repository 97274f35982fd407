---------------------------- MODULE CommandList ----------------------------
(***************************************************************************)
(* ServerDataList: the list that carries the commands of the back end from *)
(* the threads that receive them (TcpClient, the MQTT library's callback)  *)
(* to the thread of ServerDataDeal. PushLogPacket holds m_mutex,           *)
(* GetLogPacket does not. The list is a QList of pointers: an array with   *)
(* the indices d->begin and d->end, moved when there is no room in front.  *)
(* push_front is QListData::prepend; pop_back is erase(--end()), that is   *)
(* QListData::remove, which makes the shorter side move: it decrements     *)
(* d->end, or, for the only packet of a list, increments d->begin.         *)
(***************************************************************************)
EXTENDS Integers, Sequences, FiniteSets

CONSTANTS Pusher,       \* threads that push
          MaxSent,      \* bound: commands each of them receives
          Room,         \* slots in front of the first after a move
          Nobody,       \* m_mutex is free
          Stale         \* a slot not yet written

Command == Pusher \X (1..MaxSent)
Index == 0..(2 * Room)

ASSUME ConstantsAssumption ==
    /\ MaxSent \in Nat /\ Room \in Nat \ {0}
    /\ IsFiniteSet(Pusher) /\ Nobody \notin Pusher
    /\ Stale \notin Command

VARIABLES
    array, begin, end,  \* QListData::d
    mutex,              \* m_mutex
    pushing,            \* where each pusher is
    sent,               \* commands each pusher has received
    size,               \* what a pusher that moves the list has read of d->end
    taking,             \* where the thread of ServerDataDeal is
    packet,             \* what it has taken
    seenBegin, seenEnd, \* what it has read of d->begin and d->end to remove the last
    dealt,              \* history: what dealJsonData has been called with
    raced               \* history: a take has met a push

listVars == <<array, begin, end, mutex, pushing, sent, size, taking, packet,
              seenBegin, seenEnd, dealt, raced>>

ListInit ==
    /\ array = [i \in Index |-> Stale] /\ begin = 0 /\ end = 0
    /\ mutex = Nobody
    /\ pushing = [t \in Pusher |-> "idle"] /\ sent = [t \in Pusher |-> 0]
    /\ size = 0
    /\ taking = "test" /\ packet = Stale /\ seenBegin = 0 /\ seenEnd = 0
    /\ dealt = <<>> /\ raced = FALSE

Entry == Command \cup {Stale}

ListType ==
    /\ array \in [Index -> Entry]
    /\ {begin, end, size, seenBegin, seenEnd} \subseteq Nat
    /\ mutex \in Pusher \cup {Nobody}
    /\ pushing \in [Pusher -> {"idle", "prepend", "move", "moved", "resized", "slot", "write"}]
    /\ sent \in [Pusher -> 0..MaxSent]
    /\ taking \in {"test", "back", "pop", "popped", "deal"}
    /\ packet \in Entry
    /\ dealt \in Seq(Entry)
    /\ raced \in BOOLEAN

\* A push moves the list; the only slot is one not yet written; a take is under way.
Moving == \E t \in Pusher : pushing[t] \in {"moved", "resized"}
OnlyUnwritten == end = begin + 1 /\ \E t \in Pusher : pushing[t] = "write"
Taking == taking \in {"back", "pop", "popped"}

-----------------------------------------------------------------------------
(* PushLogPacket, in the thread t.                                          *)

takerVars == <<taking, packet, seenBegin, seenEnd, dealt>>

\* Mutant: a push that takes no lock either.
PushUnlocked(t) ==
    /\ pushing[t] = "idle" /\ sent[t] < MaxSent
    /\ mutex' = t
    /\ sent' = [sent EXCEPT ![t] = @ + 1]
    /\ pushing' = [pushing EXCEPT ![t] = "prepend"]
    /\ UNCHANGED <<array, begin, end, size, takerVars, raced>>

PushLock(t) ==
    /\ pushing[t] = "idle" /\ sent[t] < MaxSent /\ mutex = Nobody
    /\ mutex' = t
    /\ sent' = [sent EXCEPT ![t] = @ + 1]
    /\ pushing' = [pushing EXCEPT ![t] = "prepend"]
    /\ UNCHANGED <<array, begin, end, size, takerVars, raced>>

\* prepend: whether there is room in front. What it reads of d->begin it may use to the end.
PushTest(t) ==
    /\ pushing[t] = "prepend"
    /\ pushing' = [pushing EXCEPT ![t] = IF begin = 0 THEN "move" ELSE "slot"]
    /\ UNCHANGED <<array, begin, end, mutex, sent, size, takerVars, raced>>

\* No room in front: what there is goes Room slots up; d->end follows in two steps.
PushMove(t) ==
    /\ pushing[t] = "move" /\ end <= Room
    /\ array' = [i \in Index |-> IF i - Room \in 0..(end - 1) THEN array[i - Room]
                                 ELSE array[i]]
    /\ begin' = Room
    /\ pushing' = [pushing EXCEPT ![t] = "moved"]
    /\ raced' = (raced \/ Taking)
    /\ UNCHANGED <<end, mutex, sent, size, takerVars>>

PushReadEnd(t) ==
    /\ pushing[t] = "moved"
    /\ size' = end
    /\ pushing' = [pushing EXCEPT ![t] = "resized"]
    /\ UNCHANGED <<array, begin, end, mutex, sent, takerVars, raced>>

PushWriteEnd(t) ==
    /\ pushing[t] = "resized"
    /\ end' = size + begin
    /\ pushing' = [pushing EXCEPT ![t] = "slot"]
    /\ UNCHANGED <<array, begin, mutex, sent, size, takerVars, raced>>

\* --d->begin: the slot is part of the list before anything is in it. A pop that has read d->begin removes another
\* packet than the last, or writes over the new d->begin.
PushSlot(t) ==
    /\ pushing[t] = "slot"
    /\ begin' = begin - 1
    /\ pushing' = [pushing EXCEPT ![t] = "write"]
    /\ raced' = (raced \/ taking = "popped")
    /\ UNCHANGED <<array, end, mutex, sent, size, takerVars>>

PushWrite(t) ==
    /\ pushing[t] = "write"
    /\ array' = [array EXCEPT ![begin] = <<t, sent[t]>>]
    /\ mutex' = Nobody
    /\ pushing' = [pushing EXCEPT ![t] = "idle"]
    /\ UNCHANGED <<begin, end, sent, size, takerVars, raced>>

Push(t) ==
    PushTest(t) \/ PushMove(t) \/ PushReadEnd(t) \/ PushWriteEnd(t) \/ PushSlot(t) \/ PushWrite(t)

-----------------------------------------------------------------------------
(* ServerDataDeal::run and GetLogPacket, which holds no lock.               *)

pusherVars == <<mutex, pushing, sent, size>>

\* Mutant: the last packet is left for the next to push out.
TakeTestNotLast ==
    /\ taking = "test" /\ end - begin > 1
    /\ taking' = "back"
    /\ raced' = (raced \/ Moving \/ OnlyUnwritten)
    /\ UNCHANGED <<array, begin, end, pusherVars, packet, seenBegin, seenEnd, dealt>>

\* An empty list makes run sleep and look again.
TakeTest ==
    /\ taking = "test" /\ begin # end
    /\ taking' = "back"
    /\ raced' = (raced \/ Moving \/ OnlyUnwritten)
    /\ UNCHANGED <<array, begin, end, pusherVars, packet, seenBegin, seenEnd, dealt>>

\* back(): its datas are copied and it is deleted.
TakeBack ==
    /\ taking = "back"
    /\ packet' = array[end - 1]
    /\ taking' = "pop"
    /\ UNCHANGED <<array, begin, end, pusherVars, seenBegin, seenEnd, dealt, raced>>

\* pop_back(): d->begin and d->end are read, one of them is written back.
TakePopRead ==
    /\ taking = "pop"
    /\ seenBegin' = begin /\ seenEnd' = end
    /\ taking' = "popped"
    /\ UNCHANGED <<array, begin, end, pusherVars, packet, dealt, raced>>

\* A push that has read the index that is written, or is about to move the list with both, is met.
TakePopWrite ==
    /\ taking = "popped"
    /\ \/ /\ seenEnd - seenBegin = 1
          /\ begin' = seenBegin + 1
          /\ raced' = (raced \/ \E t \in Pusher : pushing[t] \in {"move", "slot"})
          /\ UNCHANGED end
       \/ /\ seenEnd - seenBegin # 1
          /\ end' = seenEnd - 1
          /\ raced' = (raced \/ \E t \in Pusher : pushing[t] = "move")
          /\ UNCHANGED begin
    /\ taking' = "deal"
    /\ UNCHANGED <<array, pusherVars, packet, seenBegin, seenEnd, dealt>>

\* dealJsonData; a packet that is not JSON is dropped there.
TakeDeal ==
    /\ taking = "deal"
    /\ dealt' = Append(dealt, packet)
    /\ taking' = "test"
    /\ UNCHANGED <<array, begin, end, pusherVars, packet, seenBegin, seenEnd, raced>>

Take == TakeTest \/ TakeBack \/ TakePopRead \/ TakePopWrite \/ TakeDeal
=============================================================================
