\* Every text of at most 4 of the model's words, with voice commands on or
\* off, on X11 or Wayland, with or without use_clipboard_fallback; every
\* tool of every call may exit 0, fail or time out.
CONSTANTS
  Words <- MCWords
  Clean <- MCClean
  Commands <- MCCommands
  Ratio <- MCRatio
  Prior <- MCPrior
  MaxWords = 4
  None = None
  Keys <- MCKeys
  PasteKeys <- MCPasteKeys
  KeyParts <- MCKeyParts

SPECIFICATION Spec
\* _inject_text returns or raises: every behaviour ends there.
CHECK_DEADLOCK FALSE

INVARIANT TypeOK
INVARIANT ProcessMatchesSpeech
INVARIANT CommandFreeTextInjectedOnce
INVARIANT ShowsOnlyItsInput
INVARIANT ReturnedTextReachable
