---------------------------- MODULE MCDispatch ----------------------------
\* The documents "/index.html" and "/a", a view for "/u" and "/U", and the
\* upload view at "/f", which stores files in the document root.
EXTENDS Dispatch

Index == <<105, 110, 100, 101, 120, 46, 104, 116, 109, 108>>
Docs  == {<<Slash>> \o Index, <<Slash, 97>>}
U     == <<Slash, 117>>
F     == <<Slash, 102>>

Routes1 == <<[methods |-> {"POST"}, matches |-> {U, <<Slash, 85>>}, view |-> "user"],
             [methods |-> {"POST"}, matches |-> {F}, view |-> "upload"]>>

\* "%4A" decodes to "J"; 229 is not ASCII; "://" and "&" are not encoded.
Values == {<<>>, <<97>>, <<Percent, 52, 65>>, <<Plus, 32>>, <<Question, 35>>,
           <<Equals, Percent>>, <<229>>, SchemeEnd \o <<97>>, <<97, Ampersand, 98>>}

Parameters ==
    {<<>>} \cup {<<[key |-> <<107>>, value |-> v]>> : v \in Values}
    \cup {<<[key |-> <<107>>, value |-> v], [key |-> k, value |-> w]>> :
              v \in {<<97>>, <<Percent, 52, 65>>, <<97, Ampersand, 98>>},
              w \in {<<98>>, <<Percent>>}, k \in {<<107>>, <<Percent, 49>>}}
    \cup {<<[key |-> <<107>>, value |-> <<97>>], [key |-> <<97, Ampersand, 107>>, value |-> <<98>>]>>}

\* "/a" is a document, "b" is none; a part may have another name.
Parts == {[name |-> "file", file |-> <<97>>, size |-> 2],
          [name |-> "file", file |-> <<98>>, size |-> 2],
          [name |-> "other", file |-> <<97>>, size |-> 2]}
Forms == {<<>>} \cup {<<p>> : p \in Parts} \cup {<<p, q>> : p \in Parts, q \in Parts}

Top == <<>>

MCCalls ==
    [method : {"GET"}, path : {<<Slash>>, <<Slash, 97>>, U}, parameters : {<<>>}, form : {NONE}]
    \cup [method : {"POST"}, path : {U}, parameters : Parameters, form : {NONE}]
    \cup [method : {"POST"}, path : {F}, parameters : {<<>>}, form : {NONE} \cup Forms]
=============================================================================
