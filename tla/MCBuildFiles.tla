----------------------------- MODULE MCBuildFiles -----------------------------
(***************************************************************************)
(* An instance of BuildFiles for TLC: an initramfs and a kernel; an empty  *)
(* file, a short one, and two of the same length.  The command line is     *)
(* read from the path of the kernel, so that two files are enough: all     *)
(* that matters of it is whether it is there when a build starts.          *)
(***************************************************************************)
EXTENDS BuildFiles

MCPaths == <<"initramfs", "kernel">>

MCContent == { <<>>, <<"a">>, <<"a", "b">>, <<"b", "b">> }
=============================================================================
