------------------------------ MODULE MCFiles ------------------------------
(***************************************************************************)
(* Instances of Files: a handful of names and images, files of two bytes.  *)
(***************************************************************************)
EXTENDS ShellCommands

ASSUME ImagesWellFormed

MCHello == <<0, "hello">>
MCShell == <<0, "shell">>
MCHelloMsg == <<1>>

\* Paths to hello.txt with slashes before it; a name of 63 characters, and a
\* longer one that begins with it.
MCNames ==
  {MCHello, MCShell, <<1, "hello">>, <<2, "hello">>,
   <<0, "data">>, <<0, "long">>, <<0, "longer">>}

MCCut == [n \in MCNames |-> IF n[2] = "longer" THEN <<0, "long">> ELSE n]

Host(name, data) == [name |-> name, hidden |-> FALSE, regular |-> TRUE, data |-> data]
Module(dir) == [dir |-> dir, kind |-> "ok"]
BadModule == [dir |-> <<>>, kind |-> "bad"]

\* A shell to run: its calls meet a file that is full and one that is not.
ShellModule == Module(<<Host(MCShell, <<1, 0>>)>>)

\* Every directory of up to three entries over these, none of which is a shell
\* that exec could run.
Entries ==
  {Host(n, d) : n \in {MCHello, <<0, "data">>, <<0, "long">>, <<0, "longer">>},
                d \in {<<1>>, <<1, 0, 1>>}}
    \cup {Host(MCShell, <<>>),
          [Host(<<0, "data">>, <<1>>) EXCEPT !.hidden = TRUE],
          [Host(<<0, "data">>, <<1>>) EXCEPT !.regular = FALSE]}

Distinct(dir) == \A i, j \in DOMAIN dir : i # j => dir[i].name # dir[j].name

MCModules ==
  {NoModule, BadModule, ShellModule}
    \cup {Module(dir) : dir \in {s \in UNION {[1..k -> Entries] : k \in 0..3} : Distinct(s)}}
=============================================================================
