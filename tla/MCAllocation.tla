---------------------------- MODULE MCAllocation ----------------------------
(* An instance of Allocation for TLC: three nodes in a line, with the frame *)
(* sizes and bandwidths of demo.py and tasks of its configuration files.    *)
(* Times are in tenths of a millisecond; frames that stay on their node     *)
(* take less than one.  Workloads in thousandths, as this instance has      *)
(* them, order any two lists of its tasks as the fractions and the floats   *)
(* of demo.py:113 do, ties included.                                        *)
EXTENDS Allocation

Lidar == 1
Camera == 2
Thermal == 3
Sensor == {Lidar, Camera, Thermal}

\* frame_size / bw_link; two hops are out of reach (bw_2hops is 1e-9).
LinkTime == [s \in Sensor |-> CASE s = Lidar -> 400 [] s = Camera -> 500 [] s = Thermal -> 160]
Far == 1000000
LineTime ==
  [s \in Sensor |-> [m \in Node |-> [n \in Node |->
     IF m = n THEN 0 ELSE IF m - n \in {-1, 1} THEN LinkTime[s] ELSE Far]]]

Time == [s \in Sensor |-> CASE s = Lidar -> 1280 [] s = Camera -> 372 [] s = Thermal -> 783]
File(s, m, d) == [sensor |-> s, node |-> m, deadline |-> d, fps |-> 4, time |-> Time[s]]

\* app10101, app10203, app30104, app30305, and app100217 as on node 2.
Files == {File(Lidar, 1, 2810), File(Camera, 1, 3010), File(Lidar, 3, 2790),
          File(Thermal, 3, 2910), File(Camera, 2, 2990)}
=============================================================================
