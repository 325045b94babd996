---------------------------- MODULE MCImagePull ----------------------------
(* ImagePull with two goroutines that may pull at the same time.            *)
EXTENDS ImagePull
=============================================================================
