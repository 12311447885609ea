---------------------------- MODULE MCSourceMirror ----------------------------
(***************************************************************************)
(* Small instances of SourceMirror: an upload or a live source comes into   *)
(* being, is streamed twice at once if need be, and is recomputed; so does  *)
(* a preloaded source.  With two records an upload may be cut off in the    *)
(* middle of its batches.                                                   *)
(***************************************************************************)
EXTENDS SourceMirror, TLC

CONSTANTS u, v, l, a, b, c, d, t1, t2, j1, q1, q2, q3, q4

MCUpload == {u, v}
MCPreloaded == {v}
MCLive   == {l}
MCStream == {t1, t2}
MCJob    == {j1}
MCPoller == {q1, q2, q3}
MCPolled == q1 :> u @@ q2 :> v @@ q3 :> l

\* Two open pages poll the live source.
MCPollerPages == {q1, q2, q3, q4}
MCPolledPages == MCPolled @@ q4 :> l

\* One record for each source.
MCRecord3 == {a, c, d}
MCOwner3  == a :> u @@ c :> l @@ d :> v

\* Two records for the upload, one for the others.
MCRecord4 == {a, b, c, d}
MCOwner4  == MCOwner3 @@ b :> u
===============================================================================
