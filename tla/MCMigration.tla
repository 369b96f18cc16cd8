----------------------------- MODULE MCMigration ----------------------------
EXTENDS Migration
MCScenarios ==
    {[rebinds |-> 1, forwards |-> 1, losses |-> 1, failures |-> 0, anyPacket |-> FALSE,
      others |-> FALSE],
     [rebinds |-> 2, forwards |-> 0, losses |-> 0, failures |-> 1, anyPacket |-> FALSE,
      others |-> FALSE]}
=============================================================================
