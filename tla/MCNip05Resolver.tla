-------------------------- MODULE MCNip05Resolver --------------------------
(* Nip05Resolver with two public hosts and an internal one, a ceiling of   *)
(* two bytes, and bodies that fit it, meet it or exceed it; and one plain  *)
(* exchange with each host at the edge of a range that is refused.         *)
EXTENDS Nip05Resolver

V4(a, b)         == [type |-> "ipv4", octets |-> <<a, b, 1, 2>>]
V6(head, tail)   == [type |-> "ipv6", head |-> head, tail |-> tail]
Name(labels)     == [type |-> "name", labels |-> labels]

Example  == Name(<<"example", "org">>)
Cdn      == V4(203, 0)
Intranet == V6(<<>>, <<65535, 2560, 1>>)

Ipv4Edges == {V4(p[1], p[2]) : p \in {0, 1, 9, 10, 11, 126, 127, 128, 255} \X {0, 255}
                \cup {100} \X {63, 64, 127, 128} \cup {169} \X {253, 254, 255}
                \cup {172} \X {15, 16, 31, 32} \cup {192} \X {167, 168, 169}}

Ipv6Edges ==
  {V6(<<first>>, <<1>>) : first \in {64511, 64512, 65023, 65024, 65151, 65152, 65215, 65216}}
  \cup {V6(<<>>, <<high, 1>>) : high \in {49319, 49320, 49321}}
  \cup {V6(<<100, 65435>>, <<high, 1>>) : high \in {25663, 25664, 25791, 25792}}
  \cup {V6(<<100, 65435, 1>>, <<32512, 1>>), V6(<<100, 65434>>, <<32512, 1>>)}
  \cup {V6(<<8194, high>>, <<1>>) : high \in {32511, 32512, 32767, 32768}}
  \cup {V6(<<>>, <<1>>), V6(<<>>, <<>>), V6(<<0, 0, 0, 0, 1, 65535, 2560, 1>>, Null), V6(<<0, 0, 0, 0, 0, 65535, 2560, 1>>, Null)}

NameEdges == {Name(<<"localhost">>), Name(<<"localhost", "">>), Name(<<"example", "localhost">>),
              Name(<<"localhost", "example">>), Name(<<"localhost", "", "">>), Name(<<"", "localhost", "">>)}

Edges    == Ipv4Edges \cup Ipv6Edges \cup NameEdges
AllHosts == {Example, Cdn, Intranet} \cup Edges

TheInputs ==
  {[host |-> h, followRedirectTo |-> f, maxBodyBytes |-> 2] :
     h \in {Example, Intranet}, f \in {NotFollowed, {Cdn}, {Cdn, Intranet}}}
  \cup {[host |-> h, followRedirectTo |-> NotFollowed, maxBodyBytes |-> 0] : h \in Edges}

Answer(status, xReason, length, content) ==
  {[host |-> h, redirected |-> h # Example, status |-> status, xReason |-> xReason,
    contentLength |-> length, content |-> content] : h \in {Example, Cdn, Intranet}}

TheResponses ==
  UNION {Answer(200, FALSE, length, content) : length \in {0, 3}, content \in Contents}
  \cup Answer(304, FALSE, 0, "text")
  \cup UNION {Answer(status, FALSE, 0, "text") : status \in {OPAQUE_REDIRECT, 301, 404, 500}}
  \cup UNION {Answer(status, TRUE, 0, "text") : status \in {404, 500}}
  \cup {[host |-> h, redirected |-> FALSE, status |-> 200, xReason |-> FALSE,
         contentLength |-> 0, content |-> "mapping"] : h \in Edges \cup {Intranet}}
=============================================================================
