---------------------------- MODULE FetchSources ----------------------------
(***************************************************************************)
(* main() of scripts/codex/fetch_sources.py: the manifest is filtered,    *)
(* one fetch_one task per source is submitted to a ThreadPoolExecutor,    *)
(* the main thread collects results with as_completed() in whatever       *)
(* order they finish, then sorts them by source id and writes the         *)
(* artifact.                                                              *)
(*                                                                        *)
(* The pool: submit() appends a work item to the executor's FIFO queue;   *)
(* each idle pool thread takes the head item and runs fetch_one, which    *)
(* blocks on the network until a response, an error or the timeout, and  *)
(* then completes the future.  as_completed() yields every finished       *)
(* future once; futures finished between two yields come out of a set,   *)
(* so the main thread may take any finished, not yet yielded future.     *)
(* fetch_one reads the UTC clock on entry (line 106), a step apart from  *)
(* the dequeue; the clock may pass midnight while the run is fetching.   *)
(***************************************************************************)
EXTENDS FetchRecord, ListSort, SequencesExt

CONSTANTS
  Manifest,         \* manifest["sources"], in file order
  IncludeExternal,  \* --include-external == "true"
  Workers,          \* the pool's threads: max(1, --workers) of them
  Responses,        \* the live outcomes one GET can have
  RunDays           \* the UTC dates the clock shows during one run

ASSUME Today \in RunDays

VARIABLES
  response,   \* response[i]: the outcome of the GET of source i this run
  pc,         \* main thread: "start", "collecting" or "done"
  queue,      \* executor work queue: indices of submitted, untaken sources
  busy,       \* busy[w]: the source thread w is fetching, 0 when idle
  result,     \* result[i]: the finished future's record, NoValue if pending
  yielded,    \* futures as_completed() has already yielded
  records,    \* main()'s `records` list, in collection order
  out,        \* the "records" list written to --out
  clock,      \* the date of datetime.now(timezone.utc)
  captured    \* captured[i]: the date fetch_one of source i read on entry

vars == <<response, pc, queue, busy, result, yielded, records, out, clock,
          captured>>

Submitted == SelectSources(Manifest, IncludeExternal)

Finished == {i \in DOMAIN Manifest : result[i] # NoValue}

Init ==
  /\ response \in [DOMAIN Manifest -> Responses]
  /\ pc = "start"
  /\ queue = << >>
  /\ busy = [w \in Workers |-> 0]
  /\ result = [i \in DOMAIN Manifest |-> NoValue]
  /\ yielded = {}
  /\ records = << >>
  /\ out = << >>
  /\ clock = Today
  /\ captured = [i \in DOMAIN Manifest |-> NoValue]

\* The wall clock moves on to a later date (no fairness: it need not).
Tick ==
  /\ pc # "done"
  /\ \E d \in RunDays : d > clock /\ clock' = d
  /\ UNCHANGED <<response, pc, queue, busy, result, yielded, records, out, captured>>

\* Lines 189-202: filter the manifest, then one executor.submit per source.
Start ==
  /\ pc = "start"
  /\ queue' = Submitted
  /\ pc' = "collecting"
  /\ UNCHANGED <<response, busy, result, yielded, records, out, clock, captured>>

\* _worker: a pool thread takes the next work item off the FIFO queue.
Take(w) ==
  /\ busy[w] = 0
  /\ queue # << >>
  /\ busy' = [busy EXCEPT ![w] = Head(queue)]
  /\ queue' = Tail(queue)
  /\ UNCHANGED <<response, pc, result, yielded, records, out, clock, captured>>

\* fetch_one's first line (106) reads the clock.  It is a step of its own:
\* another thread may take a later item and read the clock first.
ReadClock(w) ==
  /\ busy[w] # 0
  /\ captured[busy[w]] = NoValue
  /\ captured' = [captured EXCEPT ![busy[w]] = clock]
  /\ UNCHANGED <<response, pc, queue, busy, result, yielded, records, out, clock>>

\* fetch_one returns (success, HTTP error, or exception turned into an
\* error record): the future gets its result and the thread is idle.
Complete(w) ==
  /\ busy[w] # 0
  /\ captured[busy[w]] # NoValue
  /\ result' = [result EXCEPT ![busy[w]] =
                  FetchOneAt(Manifest[busy[w]], response[busy[w]], captured[busy[w]])]
  /\ busy' = [busy EXCEPT ![w] = 0]
  /\ UNCHANGED <<response, pc, queue, yielded, records, out, clock, captured>>

\* Mutant: the yielded future is not remembered, so it is taken again.
CollectForgetYielded ==
  /\ pc = "collecting"
  /\ \E i \in Finished \ yielded : records' = Append(records, result[i])
  /\ UNCHANGED <<response, pc, queue, busy, result, yielded, out, clock, captured>>

\* Lines 203-204: as_completed yields a finished future and the main
\* thread appends future.result().
Collect ==
  /\ pc = "collecting"
  /\ \E i \in Finished \ yielded :
       /\ records' = Append(records, result[i])
       /\ yielded' = yielded \cup {i}
  /\ UNCHANGED <<response, pc, queue, busy, result, out, clock, captured>>

\* Mutant: the loop ends once the futures finished so far are collected
\* (as with concurrent.futures.wait(..., FIRST_COMPLETED)).
FinishEarly ==
  /\ pc = "collecting"
  /\ Finished \subseteq yielded
  /\ out' = SortById(records)
  /\ pc' = "done"
  /\ UNCHANGED <<response, queue, busy, result, yielded, records, clock, captured>>

\* Mutant: records are written in completion order, unsorted.
FinishUnsorted ==
  /\ pc = "collecting"
  /\ yielded = ToSet(Submitted)
  /\ out' = records
  /\ pc' = "done"
  /\ UNCHANGED <<response, queue, busy, result, yielded, records, clock, captured>>

\* Lines 206-214: every future has been yielded; sort by id and write.
Finish ==
  /\ pc = "collecting"
  /\ yielded = ToSet(Submitted)
  /\ out' = SortById(records)
  /\ pc' = "done"
  /\ UNCHANGED <<response, queue, busy, result, yielded, records, clock, captured>>

Next ==
  \/ Start
  \/ \E w \in Workers : Take(w) \/ ReadClock(w) \/ Complete(w)
  \/ Collect
  \/ Finish
  \/ Tick

\* An idle pool thread blocked on the queue takes work, and a thread that
\* entered fetch_one reads the clock; so does the main thread move on.  The
\* GET is not fair: requests' timeout bounds the connect and each read, not
\* the whole response, so a server that keeps sending can hold it forever.
Fairness ==
  /\ \A w \in Workers : WF_vars(Take(w)) /\ WF_vars(ReadClock(w))
  /\ WF_vars(Start) /\ WF_vars(Collect) /\ WF_vars(Finish)

Spec == Init /\ [][Next]_vars /\ Fairness

-----------------------------------------------------------------------------

TypeOK ==
  /\ pc \in {"start", "collecting", "done"}
  /\ queue \in Seq(DOMAIN Manifest)
  /\ busy \in [Workers -> {0} \cup DOMAIN Manifest]
  /\ yielded \subseteq Finished
  /\ Len(records) = Cardinality(yielded)
  /\ Len(out) <= Len(Manifest)
  /\ clock \in RunDays

\* The records fetch_one produces for the submitted sources, manifest order,
\* on the dates each read.
Fetched == [k \in DOMAIN Submitted |->
              FetchOneAt(Manifest[Submitted[k]], response[Submitted[k]],
                         captured[Submitted[k]])]

\* Spec 8, count invariant: once the artifact is written it holds exactly
\* one record per submitted source, whatever each GET returned and in
\* whatever order the pool threads finished.
OneRecordPerSource ==
  pc = "done" => ToBag(out) = ToBag(Fetched)

\* Spec 4.1: with --include-external false no external source is fetched,
\* so no written record is of source_type "external".
NoExternalWhenExcluded ==
  ~IncludeExternal => \A k \in DOMAIN out : out[k].source_type # "external"

\* Whatever order the threads take, read the clock, finish and are
\* collected in, the pool writes what the one-step abstract fetch writes:
\* the records of the submitted sources, each on the date it read, sorted
\* by id.  (Only the safety part: no GET is bounded, see Fairness.)
Abstract == INSTANCE FetchAbstract WITH finished <- (pc = "done")

FetchRefinesAbstract == Abstract!SafetySpec
=============================================================================
