------------------------------ MODULE MCRenderJobs ------------------------------
(* Instances of RenderJobs for TLC.                                            *)
EXTENDS RenderJobs
===============================================================================
