------------------------------- MODULE MCLpf -------------------------------
(* Every file of at most two commands, each a LOCATE of up to five words   *)
(* over the keywords and one name, a non-LOCATE command, or a command     *)
(* shlex.split cannot tokenize.                                           *)
EXTENDS Lpf

CONSTANT n1

MCNames == {n1}

\* the LOCATE commands of up to five words, and one other command
MCCommand ==
    {<<"LOCATE">> \o w : w \in UNION {[1..k -> {"COMP", "SITE", n1}] : k \in 0..4}}
    \cup {<<"IOBUF", n1>>} \cup {Untokenizable}

MCInputs == {<<c>> : c \in MCCommand} \cup {<<c, d>> : c, d \in MCCommand}

=============================================================================
