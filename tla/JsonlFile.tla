---- MODULE JsonlFile ----
(* A JSONL file on disk, as src/eval/artifacts.py appends to it, repairs it and
   reads it back.  A line is a record or Garbled: bytes that do not parse.  The
   file is sealed when its last line ends with a newline. *)
EXTENDS Naturals, Sequences, SequencesExt

CONSTANT Garbled

Empty == [lines |-> <<>>, sealed |-> TRUE]

File(Record) == [lines : Seq(Record \cup {Garbled}), sealed : BOOLEAN]

(* The bytes of a record and its newline go to the end of the file: after an
   unsealed line they run into it. *)
Added(f, record) ==
    [lines |-> IF f.sealed THEN Append(f.lines, record)
                           ELSE [f.lines EXCEPT ![Len(f.lines)] = Garbled],
     sealed |-> TRUE]

(* Mutant: the handle is not flushed, so a killed process loses written lines. *)
CutUnflushed(f, kept) ==
    {f} \cup {[lines |-> SubSeq(f.lines, 1, k), sealed |-> TRUE] :
              k \in 0..(Len(f.lines) - 1)}

(* What a crash can leave of f when its first `kept` lines are safe: any longer
   prefix of its bytes, which may end inside a record or just before a newline. *)
Cut(f, kept) ==
    {f} \cup {[lines |-> SubSeq(f.lines, 1, k), sealed |-> TRUE] :
              k \in kept..(Len(f.lines) - 1)}
      \cup {[lines |-> Append(SubSeq(f.lines, 1, k), Garbled), sealed |-> FALSE] :
              k \in kept..(Len(f.lines) - 1)}
      \cup {[lines |-> SubSeq(f.lines, 1, k), sealed |-> FALSE] :
              k \in (kept + 1)..Len(f.lines)}

(* Only the last line may fail to parse, and only when its newline is missing:
   every reader raises on any other malformed line. *)
TornTail(f) == /\ ~f.sealed
               /\ Last(f.lines) = Garbled

Malformed(f) == \E i \in DOMAIN f.lines :
                    /\ f.lines[i] = Garbled
                    /\ f.sealed \/ i # Len(f.lines)

(* The records a reader gets: the lines in front of a torn tail. *)
Parsed(f) == IF TornTail(f) THEN Front(f.lines) ELSE f.lines

(* Mutant: a complete object whose newline was torn is left unsealed. *)
RepairedWithoutSeal(f) == [f EXCEPT !.lines = Parsed(f), !.sealed = @ \/ TornTail(f)]

(* A torn tail is truncated; a complete object without a newline is sealed. *)
Repaired(f) == [lines |-> Parsed(f), sealed |-> TRUE]
====
