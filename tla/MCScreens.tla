----------------------------- MODULE MCScreens -----------------------------
(* A camera and short files in every --video-end mode, with and without a  *)
(* detector, each with a screen, with more MJPEG viewers than the executor *)
(* has threads, or with nobody looking.                                    *)
EXTENDS Screens

Setup(kind, end, length, model, pages) ==
    [mode |-> [kind |-> kind, end |-> end, length |-> length, model |-> model], who |-> pages]

MCSetups ==
    {Setup("camera", "hold", 0, TRUE, {}),
     Setup("camera", "hold", 0, FALSE, {"v1", "v2"}),
     Setup("video", "hold", 1, TRUE, {"s1"}),
     Setup("video", "hold", 2, FALSE, {}),
     Setup("video", "hold", 0, TRUE, {"s1"}),
     Setup("video", "loop", 2, FALSE, {"s1"}),
     Setup("video", "stop", 2, TRUE, {}),
     Setup("video", "stop", 1, FALSE, {"v1", "v2"})}
MCModes == {p.mode : p \in MCSetups}
=============================================================================
