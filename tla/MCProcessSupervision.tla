------------------------ MODULE MCProcessSupervision ------------------------
(* One call with its two pipes, on either platform, cancelled up to three times *)
EXTENDS ProcessSupervision
BothPipes == {"stdout", "stderr"}
=============================================================================
