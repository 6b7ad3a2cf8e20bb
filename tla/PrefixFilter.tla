---------------------------- MODULE PrefixFilter ----------------------------
(***************************************************************************)
(* ngx_http_prefix_filter_module.c: what its header filter and its body    *)
(* filter do to a response r.  The filters behind them send what they are  *)
(* given.  Lengths count pieces: the prefix is one, and so is each piece   *)
(* of a body.                                                              *)
(***************************************************************************)
EXTENDS Integers, Sequences

NoCtx == -1     \* the response has no context of this filter yet

\* A response before its header is sent; length -1 is unknown.
Response(status, html, length) ==
    [status |-> status, html |-> html, length |-> length,
     add_prefix |-> NoCtx, announced |-> -1, sent |-> <<>>]

\* The next header filter sends the header.
Announce(r) == [r EXCEPT !.announced = r.length]

\* Mutant: the length is not touched.
HeaderKeepsLength(r, enable) ==
    IF r.status /= 200 \/ r.add_prefix /= NoCtx \/ ~enable THEN Announce(r)
    ELSE Announce([r EXCEPT !.add_prefix = IF r.html THEN 1 ELSE 0])

\* With its context set, the filter calls itself again and passes.
ngx_http_prefix_filter_header_filter(r, enable) ==
    IF r.status /= 200 \/ r.add_prefix /= NoCtx \/ ~enable THEN Announce(r)
    ELSE IF ~r.html THEN Announce([r EXCEPT !.add_prefix = 0])
    ELSE Announce([r EXCEPT !.add_prefix = 1, !.length = IF @ > 0 THEN @ + 1 ELSE @])

\* Mutant: does not remember that the prefix has been sent.
BodyForgets(r, in) ==
    IF r.add_prefix /= 1 THEN [r EXCEPT !.sent = @ \o in]
    ELSE [r EXCEPT !.sent = @ \o <<"prefix">> \o in]

\* Called for every part of the body.
ngx_http_prefix_filter_body_filter(r, in) ==
    IF r.add_prefix /= 1 THEN [r EXCEPT !.sent = @ \o in]
    ELSE [r EXCEPT !.add_prefix = 2, !.sent = @ \o <<"prefix">> \o in]

\* All of a body has been through the filters: a page of HTML begins with the
\* prefix if the location asks for it, and no other response nor a later part
\* of this one holds it (ngx_http_prefix_filter_module.c:103-166).
PrefixedOnce(r, enable) ==
    LET wanted == enable /\ r.status = 200 /\ r.html
    IN  /\ wanted => r.sent /= <<>>
        /\ \A i \in DOMAIN r.sent : r.sent[i] = "prefix" <=> (i = 1 /\ wanted)

\* It is as long as the header said, but that an empty page, announced as empty,
\* gets the prefix all the same (ngx_http_prefix_filter_module.c:138-140).
AsLongAsAnnounced(r) == \/ r.announced = -1
                        \/ r.announced = Len(r.sent)
                        \/ r.announced = 0 /\ r.sent = <<"prefix">>
=============================================================================
