\* The LUKS commands, one terminal: is the advice of luks-enable-fido2-unlock.sh sound?
CONSTANTS
  t1 = t1
  t2 = t2
  Session = {t1}
  Program <- MCLuks
SPECIFICATION Spec
PROPERTY FidoStaysConfigured
