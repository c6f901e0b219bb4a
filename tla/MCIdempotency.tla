--------------------------- MODULE MCIdempotency ---------------------------
(* Instances of Idempotency for TLC. *)
EXTENDS Idempotency

CONSTANTS r1, r2, a, b, c, d, p, q, colon, small, big

MCChars == {a, b, c, d, p, q, colon, small, big}
MCHashBody(body) == body
MCHashRequest(text) == text

Op(tenant, key, target, query, body) ==
    [tenant |-> tenant, key |-> key, target |-> target, query |-> query, body |-> body]

\* Two tenants with the same key, one of them with a body too large to hash that
\* may be cut; a tenant, with a path, that only the colons tell from the first
\* and its query; and two requests that pass through.
MCOperations ==
    { Op(<<a>>, <<b, colon, c>>, <<p>>, <<q>>, small),
      Op(<<a, colon, b>>, <<c>>, <<p, colon, q>>, <<>>, small),
      Op(<<d>>, <<b, colon, c>>, <<p>>, <<q>>, big),
      Op(NoTenant, <<c>>, <<p>>, <<>>, small),
      Op(<<a>>, NoKey, <<p>>, <<>>, small) }

MCOversize == {big}
=============================================================================
