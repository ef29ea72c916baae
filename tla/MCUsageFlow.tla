---------------------------- MODULE MCUsageFlow ----------------------------
(***************************************************************************)
(* Instances of UsageFlow for TLC: streams of up to three events, bodies   *)
(* with every combination of a few token counts, and image bodies with the *)
(* strings that are hard to skip.  A million tokens are two.               *)
(***************************************************************************)
EXTENDS UsageFlow

Event(type, outer, inner) ==
    [type |-> type, outer |-> outer, inner |-> inner, items |-> 0,
     mentionsUsage |-> outer # Absent \/ inner # Absent]
NullUsage(type) == [Event(type, Absent, Absent) EXCEPT !.mentionsUsage = TRUE]
Object(outer, inner, items) == [Event("object", outer, inner) EXCEPT !.items = items]

Stream(endpoint, events, ended) ==
    [kind |-> "stream", endpoint |-> endpoint, events |-> events, ended |-> ended,
     tokens |-> <<>>]
Body(endpoint, e) ==
    [kind |-> "body", endpoint |-> endpoint, events |-> <<e>>, ended |-> TRUE,
     tokens |-> <<>>]

----------------------------------------------------------------------------
\* Usage objects: totals, cached and written parts, some of them invalid.
OpenAI(total, output, details, p, c, w, o) ==
    Top :> (total :> p @@ output :> o)
      @@ details :> ("cached_tokens" :> c @@ "cache_write_tokens" :> w)
ChatUsages == {OpenAI("prompt_tokens", "completion_tokens", "prompt_tokens_details", p, c, w, o) :
                 p \in {0, 3, 5}, c \in {-1, 0, 1}, w \in {0, 3}, o \in {0, 1}}
ResponsesUsages == {OpenAI("input_tokens", "output_tokens", "input_tokens_details", p, c, w, 1) :
                      p \in {0, 3}, c \in {0, 1}, w \in {0, 3}}
CreationUsages == {[top |-> [prompt_tokens |-> 5, cache_creation_input_tokens |-> 2],
                    server_tool_use |-> [web_search_requests |-> 1]]}
Anthropic(i, r, a, parts) ==
    [top |-> [input_tokens |-> i, cache_read_input_tokens |-> r,
              cache_creation_input_tokens |-> a, output_tokens |-> 1],
     cache_creation |-> parts]
Parts == {[m \in {} |-> 0]}
         \cup {"ephemeral_5m_input_tokens" :> n : n \in {0, 2}}
         \cup {"ephemeral_1h_input_tokens" :> 1}
         \cup {("ephemeral_5m_input_tokens" :> n) @@ ("ephemeral_1h_input_tokens" :> 1) : n \in {1, 2}}
MessagesUsages == {Anthropic(i, r, a, parts) : i \in {0, 3}, r \in {0, 1}, a \in {0, 2},
                                               parts \in Parts}
                 \cup {[top |-> [input_tokens |-> 3, output_tokens |-> 2],
                        cache_creation |-> parts] : parts \in Parts}
ImageUsages == {[top |-> [output_tokens |-> 3],
                 input_tokens_details |-> [text_tokens |-> t, image_tokens |-> 2,
                                           cached_text_tokens |-> c, cached_image_tokens |-> 1]] :
                  t \in {0, 3}, c \in {0, 1}}

\* Streams: what comes first may be overridden or completed later.
ChatEvents == {NullUsage("chunk"), Event("chunk", Absent, Absent),
               Event("chunk", [top |-> [prompt_tokens |-> 3, completion_tokens |-> 1]], Absent)}
ResponsesEvents ==
    {Event("response.created", Absent, [top |-> [input_tokens |-> 3]]),
     NullUsage("response.completed"),
     Event("response.completed", Absent,
           OpenAI("input_tokens", "output_tokens", "input_tokens_details", 3, 1, 0, 2))}
MessagesEvents ==
    {Event("message_start", Absent, Anthropic(3, 1, 2, "ephemeral_1h_input_tokens" :> 2)),
     Event("ping", Absent, Absent),
     Event("message_delta", [top |-> [output_tokens |-> 4]], Absent)}
Streams == UNION {{Stream(endpoint, events, ended) : events \in SeqOf(alphabet, 3),
                                                     ended \in BOOLEAN} :
                  <<endpoint, alphabet>> \in {<<"chat_completions", ChatEvents>>,
                                              <<"responses", ResponsesEvents>>,
                                              <<"images", {Event("chunk", [top |-> [output_tokens |-> 1]], Absent)}>>,
                                              <<"messages", MessagesEvents>>}}
Bodies ==
    {Body("chat_completions", Object(u, Absent, 0)) : u \in ChatUsages \cup CreationUsages}
    \cup {Body("responses", Object(a, b, 0)) : a \in {Absent} \cup ResponsesUsages,
                                              b \in {Absent, [top |-> [input_tokens |-> 3]]}}
    \cup {Body("messages", Object(u, Absent, 0)) : u \in MessagesUsages}
    \cup {Body("embeddings", Object([top |-> [prompt_tokens |-> n]], Absent, 2)) : n \in {0, 5}}

\* Image bodies: an object of one or two pairs, then the rest of the answer.
Str(chars)  == [string |-> TRUE, chars |-> chars]
Char(c)     == [string |-> FALSE, chars |-> <<c>>]
Keys        == {<<"K">>, <<"K", "x">>, <<"x", "K">>, <<"B", "K">>}
Strings     == {<<>>, <<"K">>, <<"x", "x", "x">>, <<"B", "Q", "x">>, <<"B", "B">>}
Pairs       == {<<Str(k), Char(":"), Str(v)>> : k \in Keys, v \in Strings}
               \cup {<<Str(<<"K">>), Char(" "), Char(":"), Char(" "), Str(v)>> : v \in Strings}
               \cup {<<Str(<<"K">>), Char(":"), Char("x")>>}
Tails       == {<<>>, <<Char(","), Str(<<"x">>), Char(":"), Str(<<"K">>)>>,
                <<Char(","), Str(<<"K">>), Char(":"), Str(<<"x">>)>>}
Images ==
    {[kind |-> "image", endpoint |-> "images", ended |-> TRUE,
      events |-> <<Object(u, Absent, items)>>,
      tokens |-> <<Char("{")>> \o pair \o tail \o <<Char("}")>>] :
        pair \in Pairs, tail \in Tails, items \in {0, 2},
        u \in {[top |-> [output_tokens |-> 3]]}}
    \cup {[kind |-> "image", endpoint |-> "images", ended |-> TRUE,
           events |-> <<Object(u, Absent, items)>>, tokens |-> <<Char("{"), Char("}")>>] :
            u \in ImageUsages \cup {Absent}, items \in {1, Unscannable}}

----------------------------------------------------------------------------
\* Prices: everything priced, the writes of an hour not, and by the image.
TokenRates(meters) ==
    [m \in meters |-> [unit |-> IF m = WebSearch THEN 1 ELSE Million,
                       price |-> CASE m \in {"input", "image_input"} -> 1
                                   [] m \in {"cached_input", "cache_write"} -> 3
                                   [] OTHER -> 5]]
PricedByToken(meters, threshold) ==
    [spec |-> [basis |-> "token", rates |-> TokenRates(meters), rule |-> [f \in {} |-> Rejected]],
     sku |-> DefaultSku, threshold |-> threshold]
ShortMeters == InputMeters \cup {"output", "image_input", "cached_image_input", "image_output"}
TokenRoutes == {PricedByToken(ShortMeters \cup LongMeters \cup {WebSearch}, 5),
                PricedByToken(ShortMeters \ {"cache_write_1h", "cached_input"}, NoThreshold)}
PricedByImage ==
    [spec |-> [basis |-> "unit",
               rates |-> [s \in {"default", "hd"} |->
                            [unit |-> 1, price |-> IF s = "hd" THEN 40 ELSE 7]],
               rule  |-> [f \in {} |-> Rejected]],
     sku |-> "hd", threshold |-> NoThreshold]

MCAnswers == {[resp |-> r, route |-> p] : r \in Streams \cup Bodies, p \in TokenRoutes}
           \cup {[resp |-> r, route |-> p] : r \in Images, p \in TokenRoutes \cup {PricedByImage}}
=============================================================================
