------------------------------ MODULE MCHarness ------------------------------
\* Two benches at work and a disabled one; every toggle off in turn; the
\* wrapper by hand with its defaults, with a core and a log of its own, and in
\* the three ways that run nothing.
EXTENDS Harness

MCBenches == <<[name |-> "gemm", enabled |-> TRUE], [name |-> "fmacc", enabled |-> TRUE],
               [name |-> "fmacc_fp16", enabled |-> FALSE]>>

On == [sim \in Sims \cup {"log_parse"} |-> TRUE]
MCToggles == {On} \cup {[On EXCEPT ![sim] = FALSE] : sim \in Sims \cup {"log_parse"}}

MCCommands ==
  {<<"gem5">>, <<"gem5", "gemm">>, <<"whisper", "fmacc">>, <<"spike", "gemm">>,
   <<"gem5", "fmacc", "config", "o3", <<"fmacc", "gem5-o3">> >>,
   <<"gem5", "gemm", "config", "minor", <<"gemm", "gem5">>, "gdb">>}

\* The second line is an hpmcounter.
MCKinds == <<"counter", "hpm", "counter">>

\* A stop after the first line, and none.
MCCuts == {1, 3}
=============================================================================
