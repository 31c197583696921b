--------------------------- MODULE MCSysTimeouts ---------------------------
EXTENDS SysTimeouts

\* Two cyclic timers; the shorter one can be overloaded.
MCCyclicTimers == << [id |-> "reass", interval_ms |-> 3], [id |-> "arp", interval_ms |-> 1] >>

=============================================================================
