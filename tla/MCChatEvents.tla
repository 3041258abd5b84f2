----------------------------- MODULE MCChatEvents -----------------------------
(* ChatEvents for TLC: every stream of MaxLines lines. *)
EXTENDS ChatEvents, SequencesExt

CONSTANT MaxLines   \* bound on the lines of a stream

Lines ==
    {c \o e : c \in {<<>>} \cup {<<x>> : x \in Contents}, e \in {<<"LF">>, <<"CR", "LF">>}}

MCTexts == {FlattenSeq(s) : s \in [1..MaxLines -> Lines]}
=============================================================================
