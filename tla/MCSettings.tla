---------------------------- MODULE MCSettings ----------------------------
(* A vendor account, a provider an administrator adds, and one the boot    *)
(* configuration names; the first start finds no account, or both.         *)
EXTENDS Settings

MCSubmitted == {[url |-> "u1", key |-> "k", headers |-> None],
                [url |-> "u2", key |-> None, headers |-> "k"]}

MCSeeds ==
    LET Row(body) == [body |-> body, disabled |-> FALSE, proxy |-> FALSE,
                      priority |-> TRUE]
    IN {[k \in Ids |-> None],
        [k \in Ids |-> CASE k = "v" -> Row("t1")
                         [] k = "c" -> Row([url |-> "u1", key |-> "k",
                                            headers |-> None])
                         [] OTHER -> None]}
===========================================================================
