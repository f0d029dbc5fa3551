----------------------------- MODULE MCSampling -----------------------------
(* Instances of Sampling for TLC. *)
EXTENDS Sampling, TLC

\* Nothing set; each field absent, at its bounds or beyond them, those of an
\* int32 and of a float32 included; and settings that share all but one
\* component of the key of their group.
MCBodies ==
    {<< >>, "max_tokens" :> -2 @@ "top_p" :> 12, "temperature" :> 36 @@ "top_p" :> -4,
     "top_k" :> -1 @@ "top_p" :> 0 @@ "temperature" :> 24,
     "top_k" :> 1 @@ "temperature" :> 12,
     "top_k" :> 100 @@ "temperature" :> 24 @@ "top_p" :> 4,
     "top_k" :> 2 @@ "temperature" :> 13 @@ "top_p" :> 10,
     "top_p" :> 1 @@ "temperature" :> 12,
     "max_tokens" :> 100 @@ "top_p" :> 6 @@ "temperature" :> 12}

\* A clear winner, and a tie for it.
MCLogits == {<<2, 1, 0>>, <<0, 2, 2>>}
=============================================================================
