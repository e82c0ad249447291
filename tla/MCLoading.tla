------------------------------ MODULE MCLoading -----------------------------
(***************************************************************************)
(* Two owners and three targets: enough for a shared target, a collection, *)
(* a drifted one-to-one, a dead link, and two chunks of one key each.      *)
(***************************************************************************)
EXTENDS Loading

MCStores ==
    {[owner |-> (1 :> 11 @@ 2 :> 12), target |-> (11 :> 1 @@ 12 :> 2), link |-> (21 :> <<1, 12>> @@ 22 :> <<2, 11>> @@ 23 :> <<2, 12>>)],
     [owner |-> (1 :> 11 @@ 2 :> 11), target |-> (11 :> 2 @@ 13 :> 2), link |-> (21 :> <<1, 11>> @@ 22 :> <<1, 13>> @@ 23 :> <<2, 12>>)],
     [owner |-> (1 :> 13 @@ 2 :> Null), target |-> (11 :> 1 @@ 12 :> Null @@ 13 :> 1), link |-> (21 :> <<1, 13>> @@ 22 :> <<1, 12>> @@ 23 :> <<Null, 11>>)]}

MCIncludes == {<<"ManyToOne", "OneToOne">>, <<"OneToOne", "ManyToMany">>, <<"OneToMany", "ManyToOne">>, <<"OneToMany", "ManyToMany">>}

=============================================================================
