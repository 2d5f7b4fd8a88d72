----------------------------- MODULE MCStartup -----------------------------
(* Configuration files for Startup: the example file, one with no file, one *)
(* with each field out of its range, one continued and one spoilt.          *)
EXTENDS Startup

Number(n)  == [size |-> 5, number |-> n]
Word(size) == [size |-> size, number |-> None]

Section    == [form |-> "section", indented |-> FALSE, name |-> "freegrok",
               value |-> Empty, text |-> Word(10)]
Pair(n, v) == [form |-> "pair", indented |-> FALSE, name |-> n, value |-> v, text |-> Word(12)]
Indented(line) == [line EXCEPT !.indented = TRUE]
Spoilt     == [form |-> "other", indented |-> FALSE, name |-> "", value |-> Empty, text |-> Word(7)]

MCFiles ==
    {NoFile, <<>>, <<Section, Spoilt>>,
     <<Section, Pair("port", Number(6567)), Pair("magic", Word(12))>>,
     <<Section, Pair("magic", Word(190)), Indented(Spoilt)>>,
     <<Section, Pair("port", Number(80)), Indented(Pair("http_port", Number(81)))>>}
    \cup {<<Section, Pair("port", Number(n))>> : n \in {-1, 0, 65535, 65536}}
    \cup {<<Section, Pair(f, Number(n))>> :
             f \in {"http_port", "HTTP_PORT"}, n \in {-1, 0, 6567, 65535, 65616}}
    \cup {<<Section>> \o [i \in 1 .. k |-> Pair("magic", Word(170))] : k \in {5, 6}}
=============================================================================
