-------------------------- MODULE MCSlugCxlClient --------------------------
(***************************************************************************)
(* One-by-one matrices: loads of both operands, compute, read, and FLITs   *)
(* for an address nobody claims.                                           *)
(***************************************************************************)
EXTENDS SlugCxlClient

Origin == <<0, 0>>
MCFlits ==
  {M2SRwD(t, make_load_token(s, Origin, v)) : t \in Tags, s \in {0, 1}, v \in Bytes \ {0}}
  \cup {M2SRwD(t, make_compute_token) : t \in Tags}
  \cup {M2SReq(t, make_read_token(Origin)) : t \in Tags}
  \cup {Flit(FALSE, "RwD", t, NoToken) : t \in Tags}
=============================================================================
