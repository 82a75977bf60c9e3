---------------------------- MODULE MCExecutables ----------------------------
EXTENDS Executables

\* rust-gstor-multithreading: the default branch, rejected vectors (0,
\* thread_num > total), one thread, two threads with a remainder, and three
\* threads of two iterations each with a remainder of one.
MCArgChoices == {"default", <<0, 2>>, <<3, 2>>, <<1, 2>>, <<2, 3>>, <<3, 7>>}
\* The default branch scaled from <<8, 200>>.
MCDefaultArgs == <<2, 4>>

\* rust-gstor: `cmd -D path`, too few arguments, another flag, and an empty
\* data path.
MCSingleArgChoices ==
  { [len |-> 3, op |-> "-D", param |-> "data"],
    [len |-> 2, op |-> "-D", param |-> "data"],
    [len |-> 3, op |-> "-d", param |-> "data"],
    [len |-> 3, op |-> "-D", param |-> ""] }
=============================================================================
