--------------------------- MODULE MCSigningKeys ---------------------------
(***************************************************************************)
(* An instance of SigningKeys for TLC: a rotation from one key to another, *)
(* with both published for a while.                                        *)
(***************************************************************************)
EXTENDS SigningKeys

Rotation == <<"a" :> "key_a", "a" :> "key_a" @@ "b" :> "key_b", "b" :> "key_b">>

Token(kid, key, valid) == [kid |-> kid, key |-> key, valid |-> valid]

\* Tokens of either key, one that names the wrong key, one that names none, an
\* expired one and one that is signed with the shared secret.
SomeTokens ==
    {Token("a", "key_a", TRUE), Token("b", "key_b", TRUE), Token("b", "key_a", TRUE),
     Token(None, "key_a", TRUE), Token("b", "key_b", FALSE), Token("c", "secret", TRUE)}

=============================================================================
