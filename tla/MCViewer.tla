------------------------------ MODULE MCViewer ------------------------------
(* Instances of Viewer for TLC. *)
EXTENDS Viewer

\* The stream starts at a packet, or with filler and half a magic, or a header
\* that is none.
Starts == {<<>>, <<0, I>>, <<I, Three, 0>>, <<Three, VERSION, 1>>}

\* Payloads that look like the magic, end in half of it, or neither.
Payloads == {<<I, Three>>, <<0, I>>, <<0, 0>>}

Sizes == {1, 4, 9}
=============================================================================
