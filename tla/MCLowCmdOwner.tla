---------------------------- MODULE MCLowCmdOwner ----------------------------
(* LowCmdOwner with callbacks that may overtake each other; and the frames *)
(* its writer sends, over small numbers.                                   *)
EXTENDS LowCmdOwner

MCJoint ==
  {j \in [qMin : {-2}, qMax : {2}, dqMax : {1, 2}, delta : {2}, kp : {0, 1, 3}, kd : {0, 2}, ff : {-1, 2},
          lossKp : {0}, lossKd : {0}, lossFf : {1}, tau : {4}, firmware : {2, 4}] : Configured(j)}

MCFeedback == [lost : {FALSE}, finite : {TRUE}, at : {1}, q : -3..3, dq : -1..1]

(* Every kind of command occurs; the worst torque of one is within the     *)
(* limits, and only lost feedback gives up the estimate.                   *)
ASSUME FramesReach ==
  LET frames == {<<j, fb, u, JointCommand(j, was, want, 1, fb, u)>> :
                   j \in MCJoint, was \in -2..2, want \in -3..3, fb \in MCFeedback, u \in BOOLEAN}
      Within(j, fb, c) ==
        (Size(c.kp * (c.q - fb.q)) + Size(c.kd * fb.dq) + Size(c.ff)) * c.num <= Ceiling(j) * c.den
  IN /\ {x[4].kind : x \in frames} = {"standard", "derated", "degraded"}
     /\ \A x \in frames : IF x[3] THEN x[4].kind # "degraded" /\ Within(x[1], x[2], x[4])
                          ELSE x[4].kind = "degraded"
=============================================================================
