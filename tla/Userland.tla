------------------------------ MODULE Userland ------------------------------
(***************************************************************************)
(* The tests and the shell together: each initial state starts one test,   *)
(* or a shell and what is typed to it, on a fresh disk.                    *)
(***************************************************************************)
EXTENDS UserTests, UserPrograms

README == <<65, 32, 66, NL, 67>>
MCDisk == <<<<"README", README>>, <<"console", << >>>>>>
          \o [k \in 1 .. 9 |-> <<<<"cat", "init", "echo", "wc", "ln", "rm", "mkdir", "zombie", "stressfs">>[k], <<7>>>>]
MCCode == TestCode @@ ProgramCode
sbrktests == <<<<"usertests">>, <<"sbrktest">>>>
MCMains == {<<"xv6-public", t>> : t \in TestNames \cup ShellNames \cup {<<<<"forktest">>>>}}
           \cup {<<"xv6-public(1)", sbrktests>>}

Hi == <<72, NL>>
Shows ==
  [pipe |-> {wc(README)}, redir |-> {Hi}, block |-> {wc(Hi \o README)}, back |-> {Hi}, pipes |-> {wc(README)},
   dirs |-> {Hi}, links |-> {wc(README)}, nosuch |-> {<<0, 0, 0>> \o Hi}, noreader |-> {Hi},
   syntax |-> {Hi}, zombie |-> {Hi}, stressfs |-> {<< >>}]

(* No test of usertests.c finds an error, however its processes interleave, *)
(* and every line that is typed shows what it says.  One test panics the    *)
(* kernel of xv6-public(1): sbrktest reads memory that is not mapped.       *)
TestsPass ==
  /\ failed = {}
  /\ panicked # "no" => tree = "xv6-public(1)" /\ test = sbrktests
  /\ Gone /\ test[1] = <<"sh">> /\ test[2][1] \in DOMAIN Shows => tty \in Shows[test[2][1]]

(* No process waits for ever: every test, every pipeline and every          *)
(* background job ends, and init reaps what has lost its parent.            *)
Finishes == <>(Gone \/ panicked # "no")
=============================================================================
