------------------------------ MODULE Startup ------------------------------
(***************************************************************************)
(* How the process starts (main.cpp): the configuration file is read line  *)
(* by line (inih.hpp), its fields are checked, the magic is generated, and *)
(* the two observers are added to the loop, each binding and listening in  *)
(* its post_init.  What a field says is abstracted to its size and to the  *)
(* number strtol reads at its start.  Other processes take ports meanwhile.*)
(***************************************************************************)
EXTENDS Integers, SequencesExt

CONSTANTS Files,      \* the configuration files, each a sequence of lines
          NoFile,     \* a member of Files: there is no file
          Draws,      \* what the random generator may return for the length
          Ephemeral,  \* the ports the kernel may choose for a bind to port 0
          Foreign,    \* the ports other processes may bind
          None        \* no number, no port

VARIABLES file,       \* the configuration file found
          values,     \* key -> value: INIReader::_values
          phase,      \* how far main has come
          exit,       \* what main returned, None until it does
          magic_len,  \* the length of the magic
          cfg,        \* the ports in Config: port and http_port
          bound,      \* observer -> the port its socket is bound to
          taken       \* the ports of other processes (external)

vars == <<file, values, phase, exit, magic_len, cfg, bound, taken>>

MaxMagicSize == 1024
Uint16(n)    == n % 65536

----------------------------------------------------------------------------
(* The configuration file.  A line has a form ("comment", which includes   *)
(* blank lines, "section", "pair", or "other"), whether it is indented, the*)
(* name before its = or ], the value after it, and the text of the whole.  *)

Empty == [size |-> 0, number |-> None]

\* ValueHandler adds to what the key has, after a line feed: the number at the
\* start stays the first one.
Joined(old, v) == IF old.size = 0 THEN v ELSE [old EXCEPT !.size = @ + 1 + v.size]

\* MakeKey lowers the case, so both spellings of a name are one key.
MakeKey(section, name) == <<section, IF name = "HTTP_PORT" THEN "http_port" ELSE name>>

Get(vals, name, default) ==
    LET key == MakeKey("freegrok", name) IN
    IF key \in DOMAIN vals THEN vals[key] ELSE default

GetInteger(vals, name, default) ==
    LET n == Get(vals, name, Empty).number IN IF n = None THEN default ELSE n

ValueHandler(vals, section, name, v) ==
    LET key == MakeKey(section, name) IN
    (key :> Joined(IF key \in DOMAIN vals THEN vals[key] ELSE Empty, v)) @@ vals

\* One line: an indented line after a pair continues its value, whatever it
\* looks like; a line with no = is an error, and the first error is kept.
ReadLine(st, line) ==
    LET next == [st EXCEPT !.lineno = @ + 1] IN
    CASE line.form = "comment" -> next
      [] line.form # "comment" /\ line.indented /\ st.prev_name # "" ->
           [next EXCEPT !.values = ValueHandler(@, st.section, st.prev_name, line.text)]
      [] line.form = "section" /\ ~(line.indented /\ st.prev_name # "") ->
           [next EXCEPT !.section = line.name, !.prev_name = ""]
      [] line.form = "pair" /\ ~(line.indented /\ st.prev_name # "") ->
           [next EXCEPT !.prev_name = line.name,
                        !.values = ValueHandler(@, st.section, line.name, line.value)]
      [] OTHER -> [next EXCEPT !.error = IF @ = 0 THEN next.lineno ELSE @]

IniParse(f) ==
    FoldLeft(ReadLine, [lineno |-> 0, error |-> 0, section |-> "", prev_name |-> "",
                        values |-> <<>>], f)

ParseError(f) == IF f = NoFile THEN -1 ELSE IniParse(f).error

----------------------------------------------------------------------------
Init ==
    /\ file \in Files
    /\ values = <<>>
    /\ phase = "reading"
    /\ exit = None
    /\ magic_len = 0
    /\ cfg = [port |-> 0, http_port |-> 0]
    /\ bound = [o \in {"server", "iface"} |-> None]
    /\ taken = {}

port      == GetInteger(values, "port", 6567)
magic     == Get(values, "magic", Empty)
http_port == GetInteger(values, "http_port", 8080)

Return(code) ==
    /\ phase' = "ended" /\ exit' = code
    /\ UNCHANGED <<file, values, magic_len, cfg, bound, taken>>

ReadConfig ==
    /\ phase = "reading"
    /\ IF ParseError(file) # 0 THEN Return(1)
       ELSE /\ values' = IniParse(file).values /\ phase' = "checking"
            /\ UNCHANGED <<file, exit, magic_len, cfg, bound, taken>>

\* The three checks of main, in their order; the last looks at port again
\* where http_port is meant.
Reject ==
    /\ phase = "checking"
    /\ \/ magic.size >= MaxMagicSize /\ Return(3)
       \/ magic.size < MaxMagicSize /\ (port < 0 \/ port > 65535) /\ Return(2)
       \/ magic.size < MaxMagicSize /\ port \in 0 .. 65535 /\ http_port < 0 /\ Return(4)

\* A configured magic is copied; otherwise a random one is drawn, whose length
\* may pass max_length by up to 9.
GenerateMagic ==
    IF magic.size > 0 THEN magic_len' = magic.size
    ELSE \E r \in Draws : magic_len' = (r % MaxMagicSize) + 10

\* A magic longer than its buffer runs over it, and may end the process.
Configure ==
    /\ phase = "checking"
    /\ magic.size < MaxMagicSize /\ port \in 0 .. 65535 /\ http_port >= 0
    /\ GenerateMagic
    /\ cfg' = [port |-> Uint16(port), http_port |-> Uint16(http_port)]
    /\ phase' \in IF magic_len' > MaxMagicSize THEN {"server", "crashed"} ELSE {"server"}
    /\ UNCHANGED <<file, values, exit, bound, taken>>

\* bind and listen of an observer's post_init: SO_REUSEADDR does not help
\* against a socket that listens.
Available(p) == p \notin taken /\ \A o \in DOMAIN bound : bound[o] # p

AddObserver(o, p, next) ==
    /\ phase = o
    /\ \E q \in IF p = 0 THEN Ephemeral ELSE {p} :
         /\ Available(q)
         /\ bound' = [bound EXCEPT ![o] = q]
    /\ phase' = next
    /\ UNCHANGED <<file, values, exit, magic_len, cfg, taken>>

\* tcp_bind throws SysError, which nothing catches.
AddObserverThrows(o, p) ==
    /\ phase = o /\ p # 0 /\ ~Available(p)
    /\ phase' = "SysError"
    /\ UNCHANGED <<file, values, exit, magic_len, cfg, bound, taken>>

OtherBinds(p) ==
    /\ Available(p)
    /\ taken' = taken \cup {p}
    /\ UNCHANGED <<file, values, phase, exit, magic_len, cfg, bound>>

Next ==
    \/ ReadConfig
    \/ Reject
    \/ Configure
    \/ AddObserver("server", cfg.port, "iface")
    \/ AddObserver("iface", cfg.http_port, "running")
    \/ AddObserverThrows("server", cfg.port)
    \/ AddObserverThrows("iface", cfg.http_port)
    \/ \E p \in Foreign : OtherBinds(p)

Spec == Init /\ [][Next]_vars

----------------------------------------------------------------------------
\* A process that reaches its loop was given a valid HTTP port: main has the
\* message "Invalid http port value" (main.cpp:52) for any other.
HttpPortChecked == phase = "running" => http_port \in 0 .. 65535
=============================================================================
