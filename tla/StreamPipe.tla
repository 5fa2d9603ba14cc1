----------------------------- MODULE StreamPipe -----------------------------
(***************************************************************************)
(* What a tunnelled connection promises in one direction: what arrives is  *)
(* what was written, once, in order and without a gap, whatever happens to *)
(* the requests that carry it.  Elements are numbered 1, 2, 3, ...         *)
(***************************************************************************)
EXTENDS Naturals, Sequences

VARIABLES written,   \* how many elements the sender has handed over
          arrived    \* the elements the receiver has been given, in order

pipeVars == <<written, arrived>>

PipeInit == written = 0 /\ arrived = <<>>

Write == written' = written + 1 /\ UNCHANGED arrived

Arrive == /\ Len(arrived) < written
          /\ arrived' = Append(arrived, Len(arrived) + 1)
          /\ UNCHANGED written

PipeNext == Write \/ Arrive

PipeSpec == PipeInit /\ [][PipeNext]_pipeVars
=============================================================================
