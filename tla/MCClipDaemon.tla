--------------------------- MODULE MCClipDaemon ---------------------------
(* Instances of ClipDaemon for TLC.                                        *)
EXTENDS ClipDaemon, TLC

CONSTANTS a, b, u1, u2, u3, u4, s1, s2, s3

MCOrder == <<"image/png", "text/plain", "text/html">>
MCOrderPlain == <<"text/plain">>

(* Two offers that share the plain content, one with an html beside it     *)
(* that is too big; an image offered with a text; nothing to store.        *)
MCCopy ==
  { [m \in {"text/plain", "text/html"} |-> IF m = "text/plain" THEN a ELSE b],
    [m \in {"text/plain", "text/html"} |-> IF m = "text/plain" THEN a ELSE TooBig],
    [m \in {"text/plain", "image/png"} |-> b],
    [m \in {"text/plain"} |-> Empty] }

(* Plain texts with different contents.                                    *)
MCCopyPlain == { [m \in {"text/plain"} |-> x] : x \in Bytes }

Symmetry == Permutations({u1, u2, u3, u4}) \cup Permutations({s1, s2, s3})
=============================================================================
