---------------------------- MODULE MCMailContents ----------------------------
(* Parts of mails for TLC. *)
EXTENDS MailContents

Html == [Plain EXCEPT !.type = "text/html"]
Blank == [Plain EXCEPT !.blank = TRUE]
TextFile == [Plain EXCEPT !.disposition = "attachment"]
InlineText == [Plain EXCEPT !.disposition = "inline"]
InlineImage == [InlineText EXCEPT !.type = "image/png"]

MCShapes == {Plain, Html, Blank, TextFile, InlineText, InlineImage}
==============================================================================
