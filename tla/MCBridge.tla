------------------------------ MODULE MCBridge ------------------------------
(* A bundle of two requests, one with an alternative and one for a native       *)
(* bridge, and a bundle of nothing to move over a preferred route.              *)
EXTENDS Bridge

Route(preferred, native, excluded, zero) ==
    [preferred |-> preferred, native |-> native, excluded |-> excluded, zero |-> zero]

MCAsks == << <<Route(FALSE, FALSE, FALSE, FALSE), Route(FALSE, TRUE, TRUE, FALSE)>>,
             <<Route(TRUE, FALSE, TRUE, TRUE)>> >>
=============================================================================
