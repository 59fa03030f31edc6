----------------------------- MODULE MCDatabase -----------------------------
(* Files of hddtemp.db for TLC. *)
EXTENDS Database

Numbers == [c \in {"0", "194", "65730"} |->
               CASE c = "0" -> 0 [] c = "194" -> 194 [] c = "65730" -> 65730]

Str(text) == <<QUOTE>> \o text \o <<QUOTE>>
Written(regexp, number, unit, description) ==
    Str(regexp) \o <<BLANK, number, BLANK, unit, BLANK>> \o Str(description)

\* Lines of every kind: entries, with and without escapes; none; and faulty ones.
Texts ==
    {Written(<<"a">>, "194", "C", <<"d">>),
     <<BLANK>> \o Written(<<"a", "b", "c", "d", "e", "f", "g", "h", "i">>, "0", "F", <<>>),
     Written(<<ESCAPE, QUOTE, "a">>, "194", "C", <<ESCAPE, ESCAPE>>) \o <<"x">>,
     Written(<<"a", ESCAPE, ESCAPE>>, "65730", "C", <<"d">>),
     Str(<<"b", "b">>) \o <<"194", BLANK, "F", BLANK, BLANK>> \o Str(<<HASH>>),
     Written(<<"(", "b", "b", "b", "b", "b", "b">>, "194", "C", <<"d">>),
     <<>>, <<BLANK>>, <<BLANK, HASH, QUOTE>>,
     Str(<<"a">>) \o <<BLANK, "C", BLANK>> \o Str(<<"d">>),
     Str(<<"a">>) \o <<BLANK, "194", "C", BLANK>> \o Str(<<"d">>),
     Str(<<"a">>) \o <<BLANK, "194", BLANK, "K", BLANK>> \o Str(<<"d">>),
     Str(<<"a">>) \o <<BLANK, "194", BLANK, "C", QUOTE, "d">>,
     Str(<<"a">>) \o <<BLANK, "194", BLANK, "C", BLANK, QUOTE, "d">>,
     <<QUOTE, "a", BLANK, "194">>,
     <<QUOTE, "a", ESCAPE>>,
     <<BLANK, "194", BLANK, "C", BLANK, QUOTE, "d", QUOTE>>,
     Str(<<"a">>) \o <<BLANK, "194", BLANK, "C", BLANK, QUOTE, "d", ESCAPE>>}

RECURSIVE FilesOf(_)
FilesOf(n) ==
    IF n = 0 THEN {<<>>}
    ELSE {<<>>} \cup {text \o <<NEWLINE>> \o file1 : text \in Texts, file1 \in FilesOf(n - 1)}

ThreeLines == FilesOf(3)

ModelsToLookUp == {<<"a">>, <<"b", "b">>}
Compiling(regexp) == regexp = <<>> \/ regexp[1] # "("
Matching(regexp, model) == Compiling(regexp) /\ (regexp = <<>> \/ regexp[1] = model[1])

=============================================================================
