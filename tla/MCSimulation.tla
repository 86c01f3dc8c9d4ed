---------------------------- MODULE MCSimulation ----------------------------
(***************************************************************************)
(* Short behaviours of the simulation runtime, one kind for each budget:   *)
(* messages among nodes that are killed and started again, timeouts racing *)
(* messages, links cut and mended, files of one life and of two.           *)
(***************************************************************************)
EXTENDS Simulation

Budget(block_on, spawn, stale, send, kill, link, wait, join, take, file) ==
  [block_on |-> block_on, spawn |-> spawn, stale |-> stale, send |-> send, kill |-> kill,
   link |-> link, wait |-> wait, join |-> join, take |-> take, file |-> file]

MCBudgets ==
  {Budget(1, 2, 0, 1, 1, 0, 2, 1, 0, 0),    \* a node is killed while it waits, and started again
   Budget(1, 1, 1, 1, 1, 0, 1, 1, 0, 0),    \* tasks of a node that is killed are awaited
   Budget(2, 1, 0, 2, 0, 0, 2, 0, 1, 0),    \* messages overtake each other between block_ons
   Budget(1, 1, 0, 2, 0, 2, 1, 0, 0, 0),    \* links are cut and mended
   Budget(1, 0, 0, 0, 0, 0, 0, 0, 0, 5),    \* a task writes, reads and resizes its files
   Budget(1, 2, 0, 0, 1, 0, 0, 1, 0, 3)}    \* a file written in one life is used in the next

MCBuffers == {<< >>, <<1>>, <<2, 3>>}
=============================================================================
