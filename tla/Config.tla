------------------------------- MODULE Config -------------------------------
(***************************************************************************)
(* Parsing the configuration file: cfg_next, cfg_set and cfg_parse of      *)
(* cfg.c.  cfg_get_token is reduced to the tokens it returns: a text is    *)
(* a sequence of tokens, Bad being one at which it gives up (a string or a *)
(* token that is too long or not closed, a misplaced backslash).  An error *)
(* leaves by longjmp, with what was set until then; load_config uses the   *)
(* tables whatever cfg_parse returns.                                      *)
(***************************************************************************)
EXTENDS Integers, Sequences, FiniteSets, FiniteSetsExt

CONSTANTS
    Nil,        \* NULL: no token, no value
    Bad,
    Texts,      \* files, as tokens
    Lower,      \* a token as strcasecmp sees it
    cf_options, \* names of the global options to their type, "strg" or "flag"
    cf_image    \* the same for the options of an image

ASSUME ConfigAssumption ==
    /\ Nil \notin {"=", Bad} /\ Bad # "="
    /\ \A t \in Texts : t \in Seq(DOMAIN Lower \cup {"=", Bad})
    /\ "=" \notin DOMAIN Lower /\ Bad \notin DOMAIN Lower /\ Nil \notin DOMAIN Lower
    /\ "image" \notin DOMAIN cf_options
    /\ "image" \in DOMAIN cf_image /\ cf_image["image"] = "strg"

VARIABLES
    cpc,         \* "next", "set", "done" (cfg_parse returned 0), "failed" (-1)
    text,        \* the file, which does not change
    currp,       \* how many tokens of it were taken
    last_token,  \* a token that was put back
    item, value, \* what cfg_next returned
    options,     \* the global options that are set
    images       \* for each image the options that are set

configVars == <<cpc, text, currp, last_token, item, value, options, images>>

NoOptions == [o \in {} |-> Nil]

ConfigInit ==
    /\ cpc = "next"
    /\ text \in Texts
    /\ currp = 0
    /\ last_token = Nil
    /\ item = Nil /\ value = Nil
    /\ options = NoOptions
    /\ images = <<>>

(* What calls of cfg_get_token will return: a token that was put back      *)
(* comes first, Nil follows at the end.                                    *)
Ahead == (IF last_token = Nil THEN <<>> ELSE <<last_token>>)
            \o SubSeq(text, currp + 1, Len(text))
Tok(n) == IF n > Len(Ahead) THEN Nil ELSE Ahead[n]

(* n calls of cfg_get_token *)
Take(n) ==
    /\ currp' = currp + n - (IF last_token = Nil THEN 0 ELSE 1)
    /\ last_token' = Nil

ParseEnds ==
    /\ cpc = "next"
    /\ Tok(1) = Nil
    /\ cpc' = "done"
    /\ UNCHANGED <<text, currp, last_token, item, value, options, images>>

HasValue == Tok(2) = "="

(* cfg_error: in the item, in the token after it, or in the value. *)
ParseError ==
    /\ cpc = "next"
    /\ \/ Tok(1) \in {"=", Bad}
       \/ Tok(1) \notin {"=", Bad, Nil} /\ Tok(2) = Bad
       \/ Tok(1) \notin {"=", Bad, Nil} /\ HasValue /\ Tok(3) \in {Nil, "=", Bad}
    /\ cpc' = "failed"
    /\ UNCHANGED <<text, currp, last_token, item, value, options, images>>

Word(n) == Tok(n) \notin {Nil, "=", Bad}

NextWithValue ==
    /\ cpc = "next"
    /\ Word(1) /\ HasValue /\ Word(3)
    /\ item' = Tok(1) /\ value' = Tok(3)
    /\ Take(3)
    /\ cpc' = "set"
    /\ UNCHANGED <<text, options, images>>

(* Mutant: the token that was read ahead is dropped. *)
NextAloneDrops ==
    /\ cpc = "next"
    /\ Word(1) /\ ~HasValue /\ Tok(2) # Bad
    /\ item' = Tok(1) /\ value' = Nil
    /\ IF Tok(2) = Nil THEN Take(1) ELSE Take(2)
    /\ cpc' = "set"
    /\ UNCHANGED <<text, options, images>>

(* No equals sign follows; what does is put back. *)
NextAlone ==
    /\ cpc = "next"
    /\ Word(1) /\ ~HasValue /\ Tok(2) # Bad
    /\ item' = Tok(1) /\ value' = Nil
    /\ IF Tok(2) = Nil THEN Take(1)
       ELSE /\ currp' = currp + 2 - (IF last_token = Nil THEN 0 ELSE 1)
            /\ last_token' = Tok(2)
    /\ cpc' = "set"
    /\ UNCHANGED <<text, options, images>>

-----------------------------------------------------------------------------
(* cfg_set *)

Name == Lower[item]

(* A missing value and one too many are only warned about; of duplicates   *)
(* the last one counts.                                                    *)
SetIn(table, types) ==
    IF types[Name] = "strg" <=> value # Nil
    THEN [o \in DOMAIN table \cup {Name} |-> IF o = Name THEN value ELSE table[o]]
    ELSE table

(* Mutant: the path goes into the section before. *)
SetImageLate ==
    /\ cpc = "set" /\ Name = "image"
    /\ images' = IF images = <<>> THEN <<NoOptions>>
                 ELSE Append([images EXCEPT ![Len(images)] = SetIn(@, cf_image)], NoOptions)
    /\ cpc' = "next"
    /\ UNCHANGED <<text, currp, last_token, item, value, options>>

(* Every "image" opens a section, with or without a value. *)
SetImage ==
    /\ cpc = "set" /\ Name = "image"
    /\ images' = Append(images, SetIn(NoOptions, cf_image))
    /\ cpc' = "next"
    /\ UNCHANGED <<text, currp, last_token, item, value, options>>

(* curr_table: the last image, or the global options. *)
CurrTypes == IF images = <<>> THEN cf_options ELSE cf_image

SetOption ==
    /\ cpc = "set" /\ Name # "image"
    /\ Name \in DOMAIN CurrTypes
    /\ IF images = <<>>
       THEN options' = SetIn(options, cf_options) /\ UNCHANGED images
       ELSE images' = [images EXCEPT ![Len(images)] = SetIn(@, cf_image)] /\ UNCHANGED options
    /\ cpc' = "next"
    /\ UNCHANGED <<text, currp, last_token, item, value>>

(* Mutant: an unknown option is skipped. *)
SetUnknownSkips ==
    /\ cpc = "set" /\ Name # "image"
    /\ Name \notin DOMAIN CurrTypes
    /\ cpc' = "next"
    /\ UNCHANGED <<text, currp, last_token, item, value, options, images>>

(* Mutant: an unknown option is put back and tried again. *)
SetUnknownRetries ==
    /\ cpc = "set" /\ Name # "image"
    /\ Name \notin DOMAIN CurrTypes
    /\ UNCHANGED configVars

(* An unknown option ends cfg_parse.  (cfg_return keeps it for a second    *)
(* call of cfg_parse; there is none.)                                      *)
SetUnknown ==
    /\ cpc = "set" /\ Name # "image"
    /\ Name \notin DOMAIN CurrTypes
    /\ cpc' = "failed"
    /\ UNCHANGED <<text, currp, last_token, item, value, options, images>>

Returned == cpc \in {"done", "failed"}
Stop == Returned /\ UNCHANGED configVars

ParseStep ==
    \/ ParseEnds \/ ParseError \/ NextWithValue \/ NextAlone
    \/ SetImage \/ SetOption \/ SetUnknown

ConfigNext == ParseStep \/ Stop

(* cfg_parse is plain code: it goes on. *)
ConfigSpec == ConfigInit /\ [][ConfigNext]_configVars /\ WF_configVars(ParseStep)

-----------------------------------------------------------------------------
(***************************************************************************)
(* What a text means, by position and without a parser.  A word is an      *)
(* entry unless an equals sign precedes it; an equals sign must follow an  *)
(* entry and be followed by a word.                                        *)
(***************************************************************************)
At(k) == IF k \in 1 .. Len(text) THEN text[k] ELSE Nil
IsWord(k) == At(k) \notin {Nil, "=", Bad}
IsEntry(k) == IsWord(k) /\ At(k - 1) # "="
Valued(k) == At(k + 1) = "="

WrongAt(k) ==
    \/ At(k) = Bad
    \/ At(k) = "=" /\ ~(IsEntry(k - 1) /\ IsWord(k + 1))

Section(k) == { j \in 1 .. k : IsEntry(j) /\ Lower[At(j)] = "image" }
TypesIn(k) == IF Section(k) = {} THEN cf_options ELSE cf_image
Unknown(k) == IsEntry(k) /\ Lower[At(k)] \notin DOMAIN TypesIn(k)

(* The entries that take effect: nothing is wrong up to the token that     *)
(* tells whether a value follows, and nothing unknown comes before.        *)
Counts(k) ==
    /\ IsEntry(k)
    /\ \A j \in 1 .. k + (IF Valued(k) THEN 2 ELSE 1) : ~WrongAt(j)
    /\ \A j \in 1 .. k : ~Unknown(j)

Fits(k) == TypesIn(k)[Lower[At(k)]] = "strg" <=> Valued(k)

(* Those that set option o for the n-th image, or globally if n is 0. *)
Setting(n, o) ==
    { k \in DOMAIN text : /\ Counts(k) /\ Fits(k)
                          /\ Lower[At(k)] = o
                          /\ Cardinality(Section(k)) = n }

Meant(n, types) ==
    [o \in { p \in DOMAIN types : Setting(n, p) # {} } |->
        LET last == Max(Setting(n, o)) IN IF Valued(last) THEN At(last + 2) ELSE Nil]

MeantImages == { k \in DOMAIN text : Counts(k) /\ Lower[At(k)] = "image" }

(* Every variable has its type. *)
ConfigTypeOK ==
    /\ cpc \in {"next", "set", "done", "failed"}
    /\ currp \in 0 .. Len(text)
    /\ last_token \in DOMAIN Lower \cup {Nil}
    /\ cpc = "set" => item \in DOMAIN Lower /\ value \in DOMAIN Lower \cup {Nil}
    /\ DOMAIN options \subseteq DOMAIN cf_options
    /\ \A n \in DOMAIN images : DOMAIN images[n] \subseteq DOMAIN cf_image

(* When cfg_parse returns, the global options and each image have the      *)
(* values the entries before the first error give them, each in its        *)
(* section, and no other: also after an error, as load_config then goes    *)
(* on with what there is.  It returns 0 exactly for a text without one.    *)
MeansTheText ==
    Returned =>
        /\ cpc = "failed" <=> (\E k \in DOMAIN text : WrongAt(k) \/ Unknown(k))
        /\ options = Meant(0, cf_options)
        /\ Len(images) = Cardinality(MeantImages)
        /\ \A n \in DOMAIN images : images[n] = Meant(n, cf_image)

Nameless(table) == {"image", "label"} \cap DOMAIN table = {}

(* cfg_get_strg, cfg_get_default and cfg_print_images read the path of     *)
(* every image without a label.  There is one, unless the file has an      *)
(* "image" without a path, which only a warning is given for.              *)
NamelessOnlyIfBare ==
    \A n \in DOMAIN images : Nameless(images[n]) =>
        \E k \in DOMAIN text : IsEntry(k) /\ Lower[At(k)] = "image" /\ ~Valued(k)

(* Parsing ends for every file. *)
ParseReturns == <>Returned
=============================================================================
