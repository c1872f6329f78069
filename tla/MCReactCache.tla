---------------------------- MODULE MCReactCache ----------------------------
(***************************************************************************)
(* Two resources with two keys each; three components, one of which        *)
(* preloads what it reads.                                                 *)
(***************************************************************************)
EXTENDS ReactCache

CONSTANTS a, b, a1, a2, b1, b2, one, two, three

MCResource == (a1 :> a) @@ (a2 :> a) @@ (b1 :> b) @@ (b2 :> b)
MCObjects == (a1 :> {1, 2}) @@ (a2 :> {3, 4}) @@ (b1 :> {5, 6}) @@ (b2 :> {7, 8})
MCReads == (one :> <<a1, a2>>) @@ (two :> <<b1>>) @@ (three :> <<b2>>)
=============================================================================
