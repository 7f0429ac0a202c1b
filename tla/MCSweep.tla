------------------------------- MODULE MCSweep -------------------------------
\* A sweep of three enabled variants, one with two points, and a disabled one.
EXTENDS Sweep, TLC

Config(name, flags, core, kernel, enable, points) ==
  [name |-> name, flags |-> flags, core |-> core, kernel |-> kernel,
   test_enable |-> enable, points |-> points]

MCConfigs ==
  <<Config("fp64_o3", "double", "o3", "scalar", TRUE, << <<4, 1>>, <<8, 1>> >>),
    Config("fp64_minor", "double", "minor", "scalar", FALSE, << <<8, 1>> >>),
    Config("fp16_minor_opt", "_Float16", "minor", "opt", TRUE, << <<32, 1>> >>),
    Config("fp64_o3_blocked", "double", "o3", "blocked", TRUE, << <<8, 1>> >>)>>

\* A stop inside the first block, one inside the second, and none.
MCLineCuts == {4, 9, 15}
=============================================================================
