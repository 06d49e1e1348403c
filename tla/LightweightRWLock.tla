------------------------- MODULE LightweightRWLock -------------------------
(***************************************************************************)
(* MM_LightweightNonReentrantRWLock: a readers-writer lock kept in one     *)
(* 32-bit word that every call changes with compare-and-swap and nothing   *)
(* else (gc/base/LightweightNonReentrantRWLock.cpp, built with             *)
(* J9MODRON_USE_CUSTOM_READERWRITERLOCK, which omrgcconsts.h defines).     *)
(* The three fields of the word are the fields of a record: bit 0 is the   *)
(* mode, bits 1-15 count the readers, bits 16-31 the waiting writers.  A   *)
(* compare-and-swap compares all three.  One step is one access to the     *)
(* word: a read, or a compare-and-swap.                                    *)
(***************************************************************************)
EXTENDS Naturals, GCThreads

CONSTANT MaxReaders     \* the largest value of the readers' field, 32767

(***************************************************************************)
(* enterRead asserts that the count it is about to store is below          *)
(* MaxReaders; a thread is at most one reader, as the lock is not          *)
(* reentrant.  It also keeps the waiting writers, at most one per thread,  *)
(* inside their 16 bits.                                                   *)
(***************************************************************************)
ASSUME ThreadsFitTheWord ==
    /\ MaxReaders \in Nat
    /\ Cardinality(Thread) < MaxReaders

VARIABLES
    status,     \* _status
    rwPc,       \* where each thread is in its call
    seen        \* the word it read last: oldValue, or what a failed swap returned

rwVars == <<status, rwPc, seen>>

Word == [mode : {"reader", "writer"}, readers : Nat, waiting : Nat]

\* The word of a lock nobody holds or waits for: LWRW_READER_MODE.
Unlocked == [mode |-> "reader", readers |-> 0, waiting |-> 0]

RWPlaces ==
    {"idle", "enter_read", "cas_read", "reading", "exit_read", "enter_write",
     "announce", "acquire", "writing", "exit_write"}

RWInit ==
    /\ status = Unlocked
    /\ rwPc = [t \in Thread |-> "idle"]
    /\ seen = [t \in Thread |-> Unlocked]

-----------------------------------------------------------------------------
RWGoto(t, place, word) ==
    /\ rwPc' = [rwPc EXCEPT ![t] = place]
    /\ seen' = [seen EXCEPT ![t] = word]

(***************************************************************************)
(* lockCompareExchangeU32 of status from `old' to `new', going on at       *)
(* `done' when it succeeds and at `again' when it does not.  Only          *)
(* enterWrite uses the word it leaves behind in retValue.                  *)
(***************************************************************************)
Kept(place, word) ==
    IF place \in {"announce", "acquire"} THEN word ELSE Unlocked

Swap(t, old, new, done, again) ==
    \/ /\ status = old
       /\ status' = new
       /\ RWGoto(t, done, Kept(done, new))
    \/ /\ status # old
       /\ UNCHANGED status
       /\ RWGoto(t, again, Kept(again, status))

RWCall(t) ==
    /\ rwPc[t] = "idle"
    /\ \E call \in {"enter_read", "enter_write"} : RWGoto(t, call, seen[t])
    /\ UNCHANGED status

-----------------------------------------------------------------------------
(* Mutant: a reader does not look at the waiting writers. *)
ReaderExpectsWaiting(word) ==
    [mode |-> "reader", readers |-> word.readers, waiting |-> word.waiting]

(***************************************************************************)
(* enterRead.  The expected word has the readers just read, reader mode    *)
(* and no waiting writer, whatever the word said of the last two.          *)
(***************************************************************************)
ReaderExpects(word) ==
    [mode |-> "reader", readers |-> word.readers, waiting |-> 0]

ReadStatus(t) ==
    /\ rwPc[t] = "enter_read"
    /\ RWGoto(t, "cas_read", ReaderExpects(status))
    /\ UNCHANGED status

CasRead(t) ==
    /\ rwPc[t] = "cas_read"
    /\ Swap(t, seen[t], [seen[t] EXCEPT !.readers = @ + 1], "reading", "enter_read")

(***************************************************************************)
(* exitRead.  A swap that fails reads the word again.                      *)
(***************************************************************************)
ExitRead(t) ==
    /\ rwPc[t] = "reading"
    /\ RWGoto(t, "exit_read", status)
    /\ UNCHANGED status

CasExitRead(t) ==
    /\ rwPc[t] = "exit_read"
    /\ Swap(t, seen[t], [seen[t] EXCEPT !.readers = @ - 1], "idle", "reading")

(***************************************************************************)
(* enterWrite: one swap that takes a free lock; if it fails, one that adds *)
(* a waiting writer to whatever the word is; and then one that waits for   *)
(* a word without readers or writer and turns a waiting writer into the    *)
(* writer.                                                                 *)
(***************************************************************************)
TryWrite(t) ==
    /\ rwPc[t] = "enter_write"
    /\ Swap(t, Unlocked, [Unlocked EXCEPT !.mode = "writer"], "writing", "announce")

Announce(t) ==
    /\ rwPc[t] = "announce"
    /\ Swap(t, seen[t], [seen[t] EXCEPT !.waiting = @ + 1], "acquire", "announce")

(* Mutant: a waiting writer does not look at the readers. *)
WriterExpectsAnyReaders(word) ==
    [mode |-> "reader", readers |-> word.readers, waiting |-> word.waiting]

WriterExpects(word) ==
    [mode |-> "reader", readers |-> 0, waiting |-> word.waiting]

AcquireWrite(t) ==
    /\ rwPc[t] = "acquire"
    /\ LET old == WriterExpects(seen[t])
       IN  Swap(t, old, [old EXCEPT !.mode = "writer", !.waiting = @ - 1],
                "writing", "acquire")

(***************************************************************************)
(* exitWrite sets the mode back and leaves the counts, which the waiting   *)
(* writers may have raised, as it finds them.                              *)
(***************************************************************************)
ExitWrite(t) ==
    /\ rwPc[t] = "writing"
    /\ RWGoto(t, "exit_write", status)
    /\ UNCHANGED status

CasExitWrite(t) ==
    /\ rwPc[t] = "exit_write"
    /\ Swap(t, seen[t], [seen[t] EXCEPT !.mode = "reader"], "idle", "writing")

RWStep(t) ==
    \/ ReadStatus(t) \/ CasRead(t) \/ ExitRead(t) \/ CasExitRead(t)
    \/ TryWrite(t) \/ Announce(t) \/ AcquireWrite(t)
    \/ ExitWrite(t) \/ CasExitWrite(t)

RWNext == \E t \in Thread : RWCall(t) \/ RWStep(t)

RWSpec == RWInit /\ [][RWNext]_rwVars

-----------------------------------------------------------------------------
Readers == {t \in Thread : rwPc[t] \in {"reading", "exit_read"}}

Writers == {t \in Thread : rwPc[t] \in {"writing", "exit_write"}}

WaitingWriters == {t \in Thread : rwPc[t] = "acquire"}

(***************************************************************************)
(* A writer is alone: between a return of enterWrite and the swap of       *)
(* exitWrite no other thread is in, reading or writing.                    *)
(***************************************************************************)
RWExclusion == \A t \in Writers : Writers = {t} /\ Readers = {}

(***************************************************************************)
(* The assertion of enterRead (line 72) is never reached: the count of     *)
(* readers it is about to store is below the largest the field holds.      *)
(***************************************************************************)
ReaderCountFits ==
    \A t \in Thread : rwPc[t] = "cas_read" => seen[t].readers + 1 < MaxReaders

(***************************************************************************)
(* "write locks have priority over reads"                                  *)
(* (LightweightNonReentrantRWLock.hpp:44): from the swap by which a writer *)
(* announces itself until it is in, no thread becomes a reader.            *)
(***************************************************************************)
WriterPriority ==
    [][Readers' \subseteq Readers \/ WaitingWriters = {}]_rwVars

(***************************************************************************)
(* The inductive invariant: the word is the truth about the threads, its   *)
(* counts are the numbers of readers and of waiting writers and its mode   *)
(* says whether there is a writer, whatever each thread saw last.          *)
(***************************************************************************)
RWTypeOK ==
    /\ status \in Word
    /\ rwPc \in [Thread -> RWPlaces]
    /\ seen \in [Thread -> Word]

WordInv ==
    /\ status.readers = Cardinality(Readers)
    /\ status.waiting = Cardinality(WaitingWriters)
    /\ status.mode = "writer" <=> Writers # {}

SeenByReader ==
    \A t \in Thread : rwPc[t] = "cas_read" => seen[t].mode = "reader" /\ seen[t].waiting = 0

RWInv ==
    /\ RWTypeOK
    /\ WordInv
    /\ SeenByReader
    /\ RWExclusion
    /\ ReaderCountFits
=============================================================================
