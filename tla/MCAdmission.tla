------------------------------- MODULE MCAdmission -----------------------------
(* An instance of Admission: all resources with one choice of data stores,    *)
(* and all choices of data stores with one choice of resources.               *)
EXTENDS Admission

Store(id, override, state, bucket) ==
    [id |-> id, type |-> "s3", override |-> override, state |-> state, bucket |-> bucket]

Base == [complete |-> TRUE, image |-> FALSE, framework |-> "known",
         resources |-> [gpuType |-> "k80", gpus |-> 2, learners |-> 1],
         input |-> <<"a">>, output |-> <<"b">>,
         stores |-> <<Store("a", "", "ok", "data"), Store("b", "", "ok", "results")>>,
         location |-> ""]

MCStores ==
    {<<>>} \cup
    {<<Store("a", o, s, "data")>> : o \in {"", "mount_cos"}, s \in {"ok", "incomplete"}} \cup
    {<<Store("a", "", "ok", "data"), Store("b", o, s, b)>> :
        o \in {"", "mount_cos"}, s \in {"ok", "refused"}, b \in {"results", "none"}}

MCRequest ==
    {[Base EXCEPT !.resources = [gpuType |-> t, gpus |-> g, learners |-> n]] :
        t \in Name, g \in {0, 2}, n \in {1, 2}} \cup
    {[Base EXCEPT !.input = i, !.output = o, !.stores = s] :
        i \in {<<>>, <<"a">>, <<"b">>, <<"a", "b">>},
        o \in {<<>>, <<"b">>, <<"c">>, <<"a", "b">>}, s \in MCStores} \cup
    {[Base EXCEPT !.complete = c, !.image = i, !.framework = f, !.resources = r] :
        c \in BOOLEAN, i \in BOOLEAN, f \in {"known", "unknown"},
        r \in {Base.resources, None}}

(* One type without a limit, one with none left, one given twice. *)
MCLimits ==
    {<<[name |-> "K80", limit |-> 4], [name |-> "cpu", limit |-> 2], [name |-> "P100", limit |-> 0]>>,
     <<[name |-> "k80", limit |-> 4], [name |-> "K80", limit |-> 0], [name |-> "P100", limit |-> 2]>>,
     <<[name |-> "K80", limit |-> 0], [name |-> "k80", limit |-> 4]>>}
================================================================================
