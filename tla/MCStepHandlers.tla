--------------------------- MODULE MCStepHandlers ---------------------------
(***************************************************************************)
(* A model-checking instance of StepHandlers: two runs, one after the      *)
(* other, of scripts that leave a device to the next one.                  *)
(***************************************************************************)
EXTENDS StepHandlers

Step(do) == [do |-> do]
Solving(tolerance, expose, sync) ==
  [do |-> "plate_solve", tolerance |-> tolerance, expose |-> expose, sync |-> sync, max |-> 3]
NotAtAll == [Solving(TRUE, TRUE, TRUE) EXCEPT !.max = 0]

Set(v) == [do |-> "set_property", vec |-> v, value |-> "given"]
SetMode(m) == [do |-> "set_property", vec |-> "MODE", value |-> m]

SomeScripts == {<<Step("slew"), Set("COORD")>>,
                <<Step("cool_camera")>>,
                <<Set("TEMPERATURE"), Step("cool_camera")>>,
                <<Step("set_focus_position"), Step("wait_for")>>,
                <<Set("EXPOSURE"), Set("ABORT")>>,
                <<SetMode("SYNC"), Set("COORD")>>,
                <<Solving(FALSE, FALSE, FALSE)>>,
                <<Step("capture_frame"), Solving(FALSE, FALSE, TRUE), Set("COORD")>>,
                <<Solving(TRUE, TRUE, TRUE)>>,
                <<Solving(TRUE, TRUE, FALSE)>>,
                <<NotAtAll>>}

\* What _wait_for_property_state's comment says of slew and capture_frame.
PromptVectors == {"EXPOSURE", "COORD", "FOCUS"}
=============================================================================
