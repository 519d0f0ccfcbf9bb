-------------------------- MODULE MCTorrentFile --------------------------
(* An info dictionary of up to four of seventeen fields.                    *)
EXTENDS TorrentFile

\* A key of one letter and the text of its value.
Field(key, text, plain, size) ==
    [key |-> <<key>>, text |-> <<"1", ":", key>> \o text, plain |-> plain, size |-> size]

MCFields == {
    Field("l", <<"i", "2", "e">>, TRUE, 2),
    Field("l", <<"i", "0", "3", "e">>, FALSE, 3),
    Field("l", <<"1", ":", "a">>, TRUE, 1),
    Field("l", <<"i", "-", "1", "0", "0", "e">>, TRUE, -100),
    Field("p", <<"i", "1", "e">>, TRUE, 1),
    Field("p", <<"i", " ", "+", "2", "e">>, FALSE, 2),
    Field("p", <<"i", "0", "e">>, TRUE, 0),
    Field("p", <<"i", "-", "1", "e">>, TRUE, -1),
    Field("q", <<"2", ":", "a", "e">>, TRUE, 2),
    \* The length of the key has a sign.
    [key |-> <<"q">>, text |-> <<"+", "1", ":", "q", "0", "3", ":", "a", "a", "a">>,
     plain |-> FALSE, size |-> 3],
    Field("q", <<"9", "9", ":", "a">>, TRUE, 99),
    \* The parser goes back: the key is the rest of the file, its value "aa".
    [key |-> <<"-">>, text |-> <<"-", "2", ":", "a", "a">>, plain |-> FALSE, size |-> 2],
    \* files: [{length: 2, path: ["a"]}, {path: []}]
    Field("f", <<"l", "d", "1", ":", "l", "i", "2", "e", "1", ":", "p", "l", "1", ":", "a",
                 "e", "e", "d", "1", ":", "p", "l", "e", "e", "e">>, TRUE, 2),
    \* files: [{path: [], length: 99}, {length: 1, path: []}], its keys in the
    \* wrong order
    Field("f", <<"l", "d", "1", ":", "p", "l", "e", "1", ":", "l", "i", "9", "9", "e", "e",
                 "d", "1", ":", "l", "i", "1", "e", "1", ":", "p", "l", "e", "e", "e">>,
          FALSE, 100),
    \* A length that is no int64_t, and files: [{length: 1}]
    Field("l", <<"i", "1", "0", "0", "e">>, TRUE, 100),
    Field("f", <<"l", "d", "1", ":", "l", "i", "1", "e", "e", "e">>, TRUE, 1),
    \* A key parse() does not know: [1, {a: "d"}]
    Field("d", <<"l", "i", "1", "e", "d", "1", ":", "a", "1", ":", "d", "e", "e">>, TRUE, 0)}
=============================================================================
