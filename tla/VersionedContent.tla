---------------------------- MODULE VersionedContent ----------------------------
(***************************************************************************)
(* Versioned documents (lib/versioned.ts): personas, scenarios and scoring  *)
(* matrices.  A collection maps a version group to its versions in order;   *)
(* the unique index on {tenantId, versionGroupId, version} makes the        *)
(* position of a version its number.  A body is everything a document holds *)
(* beside the versioned fields.                                            *)
(***************************************************************************)
EXTENDS Integers, Sequences

Draft(body) == [status |-> "draft", isCurrent |-> FALSE, body |-> body]

Versions(docs) == UNION {{<<g, n>> : n \in DOMAIN docs[g]} : g \in DOMAIN docs}
At(docs, v)    == docs[v[1]][v[2]]

\* v.current: what requestors and intakes see.
Current(docs) == {v \in Versions(docs) : At(docs, v).isCurrent /\ At(docs, v).status = "active"}
CurrentBodies(docs) == {At(docs, v).body : v \in Current(docs)}

\* createDraft: the clash is looked for among current documents only.
MayCreate(docs, key) == \A v \in Versions(docs) : At(docs, v).isCurrent => At(docs, v).body.key # key
createDraft(docs, g, body) == [docs EXCEPT ![g] = <<Draft(body)>>]

OpenDrafts(docs, g) == {n \in DOMAIN docs[g] : docs[g][n].status = "draft"}

\* updateAsNewVersion: a draft in place, an active version by copy unless a draft is open.
MayUpdate(docs, g, n) ==
  \/ docs[g][n].status = "draft"
  \/ docs[g][n].status = "active" /\ OpenDrafts(docs, g) = {}

updateAsNewVersion(docs, g, n, body) ==
  IF docs[g][n].status = "draft"
    THEN [docs EXCEPT ![g][n].body = body]
    ELSE [docs EXCEPT ![g] = Append(@, Draft(body))]

MayActivate(docs, g, n) == docs[g][n].status = "draft"

\* activate: the current version of the group, if there is one, makes way.
activate(docs, g, n) ==
  LET current  == {m \in DOMAIN docs[g] : docs[g][m].isCurrent}
      previous == CHOOSE m \in current : TRUE
  IN [docs EXCEPT ![g] = [m \in DOMAIN @ |->
        IF m = n THEN [@[m] EXCEPT !.status = "active", !.isCurrent = TRUE]
        ELSE IF current # {} /\ m = previous
          THEN [@[m] EXCEPT !.status = "deactivated", !.isCurrent = FALSE]
        ELSE @[m]]]

MayDeactivate(docs, g, n) == docs[g][n].status # "deactivated"
deactivate(docs, g, n) ==
  [docs EXCEPT ![g][n].status = "deactivated", ![g][n].isCurrent = FALSE]
===============================================================================
