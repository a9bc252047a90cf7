------------------------------ MODULE MCWizard ------------------------------
(* Two things to select, and two kernels that may arrive: an update that is  *)
(* run again after it brought a kernel may or may not bring another.  The    *)
(* GStreamer plugins are installed with --skip-unavailable, so that they may *)
(* be missing after all and no step has failed.                              *)
EXTENDS Wizard

CONSTANTS steam, gstreamer
Items == {steam, gstreamer}
Skippable == {gstreamer}
=============================================================================
