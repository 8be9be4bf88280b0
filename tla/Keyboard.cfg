SPECIFICATION MCSpec
CONSTANTS
  BUFSIZE = 4
  Keys <- ManyKeys
  LineMax = 3
PROPERTIES
  DecodesWhatWasMeant
  ImplementsKeyQueue
  ServedWhileTyping
