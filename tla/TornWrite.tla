----------------------------- MODULE TornWrite ------------------------------
(***************************************************************************)
(* update_docs.py killed while it writes a file.  Path.write_text opens   *)
(* the file in "w" mode, which truncates it, and then writes the text: a  *)
(* process killed in between, or part-way through the write (a cancelled *)
(* CI job, a full disk), leaves a prefix of the new text on disk.  The    *)
(* script writes in place, without a temporary file and rename, and its   *)
(* next run reads whatever prefix is there.                               *)
(*                                                                        *)
(* The faults are separate actions, and CrashSpec adds them to Next.      *)
(* Runs stay bounded by MaxRuns, because a killed run counts as one run.  *)
(***************************************************************************)
EXTENDS Publish

\* The contents path.write_text(text) may leave when it is interrupted:
\* the first n tokens, for every n short of the whole text.
TornPrefixes(text) == {SubSeq(text, 1, n) : n \in 0..Len(text) - 1}

\* Lines 116-119: the process dies inside path.write_text(updated) for the
\* current document; the later documents and README.md are not touched.
WriteKilled ==
  /\ pc \in DOMAIN DocKeys
  /\ LET sec == DocKeys[pc]
     IN /\ HasMarkers(docs[sec])
        /\ \E torn \in TornPrefixes(Updated(sec)) :
             docs' = [docs EXCEPT ![sec] = torn]
  /\ pc' = Idle
  /\ UNCHANGED <<readme, digest, today, runs, rendered, from, stamped>>

\* Lines 124-127: the process dies inside readme_path.write_text(readme).
ReadmeWriteKilled ==
  /\ pc = Readme
  /\ \E torn \in TornPrefixes(update_last_updated(readme, today)) :
       readme' = torn
  /\ pc' = Idle
  /\ UNCHANGED <<docs, digest, today, runs, rendered, from, stamped>>

CrashSpec == Init /\ [][Next \/ WriteKilled \/ ReadmeWriteKilled]_vars
=============================================================================
