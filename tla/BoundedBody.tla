----------------------------- MODULE BoundedBody -----------------------------
(***************************************************************************)
(* Reading an upstream body into memory or a file under a limit            *)
(* (http_body.rs).  Sizes are numbers of bytes; the code counts with a     *)
(* usize, and usize::MAX is small here.                                    *)
(***************************************************************************)
EXTENDS Integers

CONSTANTS
  UsizeMax,
  Limit,
  Chunks,       \* the sizes of the pieces in which a body may arrive
  MaxSent       \* bound on the length of a body

\* The limits are constants of the code, all of them far below usize::MAX; a sum that
\* saturates could not be told from a limit of usize::MAX.
ASSUME BodyConstants ==
  /\ UsizeMax \in Nat /\ Limit \in 0..(UsizeMax - 1)
  /\ Chunks \subseteq Nat /\ MaxSent \in Nat

VARIABLE body

Undeclared == -1
NoBody == [stage |-> "idle", declared |-> Undeclared, sent |-> 0, length |-> 0]

BodyInit == body = NoBody

\* As the sum would be if it wrapped around.
WrappingAdd(a, b) == (a + b) % (UsizeMax + 1)

SaturatingAdd(a, b) == IF a + b > UsizeMax THEN UsizeMax ELSE a + b

\* The headers arrive: ensure_content_length.
Declare(length) ==
  /\ body = NoBody
  /\ body' = [body EXCEPT !.declared = length,
                          !.stage = IF length > Limit THEN "too_large" ELSE "reading"]

\* A piece arrives, of no more than what was declared: ensure_streamed_size, then it is kept.
Receive(size) ==
  /\ body.stage = "reading"
  /\ body.sent + size <= IF body.declared = Undeclared THEN MaxSent ELSE body.declared
  /\ body' = IF SaturatingAdd(body.length, size) > Limit
             THEN [body EXCEPT !.sent = @ + size, !.stage = "too_large"]
             ELSE [body EXCEPT !.sent = @ + size, !.length = @ + size]

\* The body ends as the transport says that it should.
End ==
  /\ body.stage = "reading" /\ body.declared \in {Undeclared, body.sent}
  /\ body' = [body EXCEPT !.stage = "done"]

\* The connection or the temporary file fails, or what was read is not what it should be.
Break == body.stage \in {"reading", "done"} /\ body' = [body EXCEPT !.stage = "failed"]

Forget == body.stage \in {"too_large", "done", "failed"} /\ body' = NoBody

BodyNext ==
  \/ \E length \in 0..MaxSent \cup {Undeclared} : Declare(length)
  \/ \E size \in Chunks : Receive(size)
  \/ End \/ Break \/ Forget

BodySpec == BodyInit /\ [][BodyNext]_body

\* A body that was read is all that upstream sent and fits, and one is refused as too large
\* only if it is, wherever its pieces are cut and whether or not its length was declared
\* (collect_bytes, collect_temp_file and ensure_streamed_size of http_body.rs).
BodyIsWhole ==
  /\ body.stage = "done" =>
       /\ body.length = body.sent /\ body.length <= Limit
       /\ body.declared \in {Undeclared, body.length}
  /\ body.stage = "too_large" => body.sent > Limit \/ body.declared > Limit
=============================================================================
