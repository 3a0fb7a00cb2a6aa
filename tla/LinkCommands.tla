----------------------------- MODULE LinkCommands -----------------------------
(***************************************************************************)
(* Which messages are link commands (business_domain/link_commands.py).    *)
(*                                                                         *)
(* A text is a sequence of words and gaps.  What a word says is in lower   *)
(* case, as parse compares it; at is set if something follows it after an  *)
(* "@".  A blank is one space, a break any other white space: a command    *)
(* ends at the first blank, its arguments at either.                       *)
(***************************************************************************)
EXTENDS Naturals, SequencesExt, Picking

Word(says) == [is |-> "word", says |-> says, at |-> FALSE]

Mention(says) == [is |-> "word", says |-> says, at |-> TRUE]

Blank == [is |-> "blank"]

Break == [is |-> "break"]

IsWord(token) == token.is = "word"

\* White space is between any two words.
IsText(text) ==
    /\ text \in Seq(ToSet(text))
    /\ \A i \in 1..Len(text) : IsWord(text[i]) \/ text[i] \in {Blank, Break}
    /\ \A i \in 1..Len(text) - 1 : ~(IsWord(text[i]) /\ IsWord(text[i + 1]))

SlashWords == {"/start", "/logout", "/help"}

StartsWithSlash(word) == word.says \in SlashWords

\* Up to 64 letters, digits, "_" or "-": no slash, no "@", and not an odd word, which is
\* longer or has other signs in it.
_CODE(word) == ~word.at /\ word.says \notin SlashWords \cup {"odd"}

strip(text) ==
    IF SelectInSeq(text, IsWord) = 0 THEN <<>>
    ELSE SubSeq(text, SelectInSeq(text, IsWord), SelectLastInSeq(text, IsWord))

words(text) == Picked(text, {i \in DOMAIN text : IsWord(text[i])})

\* Slip: the bot's name stays part of the command.
CommandWithName(head) ==
    IF Len(head) = 1 /\ ~head[1].at THEN head[1].says ELSE "other"

\* What stands before the first "@".
Command(head) ==
    IF Len(head) = 1 \/ head[1].at THEN head[1].says ELSE "other"

\* Where the first blank is, or the end.
FirstBlank(text) == SelectInSeq(Append(text, Blank), LAMBDA token : token = Blank)

\* What kind of command a text is, "none" if it is ordinary conversation.
parse(text) ==
    LET stripped == strip(text)
        end  == FirstBlank(stripped)
        head == SubSeq(stripped, 1, end - 1)
        args == words(SubSeq(stripped, end + 1, Len(stripped)))
    IN  IF stripped = <<>> \/ ~StartsWithSlash(stripped[1]) THEN "none"
        ELSE CASE Command(head) = "/start" ->
                    IF args = <<>> THEN "prompt"
                    ELSE IF Len(args) = 1 /\ _CODE(args[1]) THEN "redeem"
                    ELSE "bad_code"
               [] Command(head) = "/logout" /\ args = <<>> -> "logout"
               [] OTHER -> "none"

-----------------------------------------------------------------------------
\* Words as a service would suggest them: a blank between any two, and the command
\* without a name.
Suggested(said) ==
    FlattenSeq([i \in DOMAIN said |->
        IF i = 1 THEN << Word(said[1].says) >> ELSE << Blank, said[i] >>])

\* Is the first word followed by a break before any blank?  Then the head of the text is
\* more than the command.
RunsOn(text) ==
    LET stripped == strip(text)
    IN  Len(stripped) > 1 /\ stripped[2] = Break

\* The words after the first blank.
AfterBlank(text) ==
    LET stripped == strip(text)
    IN  words(SubSeq(stripped, FirstBlank(stripped), Len(stripped)))

\* "A service that can only suggest a message is relying on this parser to accept
\* exactly what it suggested" (link_commands.py:11-14).  A text is the command that its
\* words are when they are suggested, whatever white space is around it and between the
\* words and whether or not the bot's name is appended, with one exception: where a
\* break follows the first word (RunsOn), that word is no command, or, if it has a name
\* appended, it is, but what stands before the next blank is not among its arguments.
CommandsAre(texts) ==
    \A text \in texts :
        LET first == strip(text)[1]
        IN  /\ ~RunsOn(text) => parse(text) = parse(Suggested(words(text)))
            /\ RunsOn(text) /\ first.at =>
                  parse(text) = parse(Suggested(<< first >> \o AfterBlank(text)))
            /\ RunsOn(text) /\ ~first.at => parse(text) = "none"
=============================================================================
